---- MODULE Spec2Model ----
(***************************************************************************)
(* A model of Market-insight-bot:                                          *)
(*   - NewsAnalyzer (ai_analyzers/news_analyzer.py): the buffered,         *)
(*     counter-triggered analysis engine;                                  *)
(*   - MonitoredCache (data_modules/market_data/processor.py): the keyed   *)
(*     expiring cache with its sweep thread;                               *)
(*   - BinanceUSDMarginFetcher._handle_socket                              *)
(*     (data_modules/market_data/binance_fetcher.py): the reconnecting     *)
(*     stream loop, with start() and stop();                               *)
(*   - ZMQManager (communication/zmq_manager.py) and the start-up of       *)
(*     main (main.py): publishers, subscribers and the messages between    *)
(*     them, and close();                                                  *)
(*   - NewsProcessor (data_modules/news/processor.py): the listener        *)
(*     thread with start_listening() and stop_listening();                 *)
(*   - the fetcher's message handlers, and add_message taken statement by  *)
(*     statement around its collaborator calls.                            *)
(* Each component has its own specification (EngineSpec, IngestSpec,       *)
(* CacheSpec, StreamSpec, HandlerSpec, BusSpec, CloseSpec, ListenerSpec);  *)
(* the variables of the other components stay at their initial values.     *)
(***************************************************************************)
EXTENDS Integers, Sequences, FiniteSets, TLC

VARIABLES
    \* ---- NewsAnalyzer: configuration (constructor arguments) ----
    message_buffer_size,
    analysis_interval,
    summary_interval_channel,
    summary_interval_group,
    \* ---- NewsAnalyzer: state ----
    message_buffer,
    message_count,
    last_analysis_count,
    channel_message_count,
    group_message_count,
    last_channel_summary_count,
    last_group_summary_count,
    \* ---- NewsAnalyzer: observation of the calls made ----
    last,              \* what the add_message call that has just ended did
    \* ---- MonitoredCache ----
    maxsize,           \* configuration
    ttl,               \* configuration
    cache_data,        \* _data, in the dict's insertion order: <<[key, value, ts]>>
    cache_lock,        \* _lock: "free" or the thread that holds it
    stop_event,        \* _stop_event
    monitor,           \* the _monitor_expiry thread: its position and locals
    client,            \* the threads calling the cache: position and arguments
    clock,             \* time.time()
    calls,             \* cache operations called so far
    \* ---- BinanceUSDMarginFetcher ----
    is_running,        \* _is_running
    fetcher,           \* where start() is: "init", "starting", "gathering"
    stream,            \* the _handle_socket task of each stream: position and locals
    stopper,           \* the caller of stop(): position and what it waits for
    \* ---- ZMQManager ----
    publishers,        \* self.publishers: address -> handle (0: no entry)
    sockets,           \* sockets created so far; a handle is its socket's number
    binds,             \* successful binds per address
    handed,            \* the handles get_publisher has returned, per address
    subscribers,       \* self.subscribers: <<[address, filters, inbox, got]>>
    frames,            \* the frames sent by publish_message
    bus_calls,         \* calls of the manager made so far
    bus_last,          \* what the last call of the manager did
    \* ---- main ----
    app,               \* where main() is and what it has started
    \* ---- ZMQManager.close ----
    lifecycle,         \* the caller of close(), the context, and what was released
    \* ---- NewsProcessor ----
    listener,          \* the listener threads, _thread and _stop_event
    \* ---- BinanceUSDMarginFetcher: message handlers ----
    handled,           \* the message a handler was given last and what it published
    \* ---- NewsAnalyzer.add_message, statement by statement ----
    ingest,            \* where add_message is, and what it handed to its collaborators
    \* ---- MarketDataProcessor ----
    market             \* the configured symbol, the listener threads, _stop_event

engineVars == << message_buffer_size, analysis_interval, summary_interval_channel,
                 summary_interval_group, message_buffer, message_count,
                 last_analysis_count, channel_message_count, group_message_count,
                 last_channel_summary_count, last_group_summary_count,
                 last >>

cacheVars == << maxsize, ttl, cache_data, cache_lock, stop_event, monitor, client,
                clock, calls >>

streamVars == << is_running, fetcher, stream, stopper >>

busVars == << publishers, sockets, binds, handed, subscribers, frames, bus_calls,
              bus_last, app >>

moreVars == << lifecycle, listener, handled, ingest, market >>

vars == << engineVars, cacheVars, streamVars, busVars, moreVars >>

(***************************************************************************)
(* Bounds of the model.                                                    *)
(***************************************************************************)
MaxSize == 1          \* cache sizes are drawn from 1..MaxSize
MaxTtl == 2           \* TTLs are drawn from 1..MaxTtl
MaxTime == 3          \* the clock runs from 0 to MaxTime
MaxCalls == 3         \* at most MaxCalls cache operations are called
MaxInterval == 2      \* intervals are drawn from 1..MaxInterval
MaxBuffer == 2        \* buffer capacities are drawn from 1..MaxBuffer
MaxEvents == 3        \* add_message is called at most MaxEvents times
MaxStops == 2         \* stop() is called at most MaxStops times
MaxReads == 1         \* each stream task completes at most MaxReads reads
MaxBusCalls == 3      \* the manager is called at most MaxBusCalls times
MaxSubscribers == 1   \* at most MaxSubscribers subscribers are created
MaxCloses == 2        \* close() is called at most MaxCloses times
MaxListenerCalls == 4 \* start_listening and stop_listening are called at most MaxListenerCalls times
MaxSample == 2        \* sample sizes are drawn from 0..MaxSample
MaxFed == 2           \* the listener threads receive at most MaxFed messages
MaxMarketCalls == 2   \* start_listening and stop_listening of the market-data processor are called at most MaxMarketCalls times

Min(a, b) == IF a <= b THEN a ELSE b

(***************************************************************************)
(*                             NewsAnalyzer                                *)
(***************************************************************************)

\* Python's None, as the result of analyze_market_volatility and of
\* summarize_recent_messages
NoSummary == << "None" >>

\* message_data["message_type"], lower-cased; anything else is "unknown"
MessageTypes == {"channel", "group", "unknown"}

\* What json.loads can hand back, by the cases the code distinguishes.
\*   type "falsy":      {} [] 0 "" null false
\*   type "non_object": a truthy value that is not a dict (list, string, number)
\*   type "object":     a dict with at least one key; each field is
\*       vol, act: "true" | "false" | "missing" | "string" (a non-empty string)
\*       conf:     "ok" (a number in [0,1]) | "missing" | "string" | "out_of_range"
\*       topics:   "list" (a list of strings) | "missing" | "number"
\*       summary:  "text" | "missing"
NoFields == [vol |-> "n/a", act |-> "n/a", conf |-> "n/a", topics |-> "n/a", summary |-> "n/a"]

JsonObject(vol, act, conf, topics, summary) ==
    [type |-> "object", vol |-> vol, act |-> act, conf |-> conf,
     topics |-> topics, summary |-> summary]

JsonOther(type) == [type |-> type] @@ NoFields

NoResult == JsonOther("None")

ValidObjects == { JsonObject(v, a, "ok", "list", "text") : v, a \in {"true", "false"} }

\* objects that break the schema in one place
InvalidObjects ==
    { JsonObject("true", "missing", "missing", "missing", "missing"),
      JsonObject("string", "false", "ok", "list", "text"),
      JsonObject("false", "true", "out_of_range", "list", "text"),
      JsonObject("true", "false", "string", "list", "text"),
      JsonObject("true", "false", "ok", "number", "text"),
      JsonObject("missing", "missing", "ok", "list", "text") }

JsonValues == ValidObjects \cup InvalidObjects
                  \cup {JsonOther("falsy"), JsonOther("non_object")}

\* What _call_qwen_api returns to analyze_market_volatility:
\*   "api_fail": None (status != 200, an exception, or empty text)
\*   "non_json": text json.loads rejects
\*   "json":     text json.loads accepts, with the parsed value
Responses == {[kind |-> "api_fail", value |-> JsonOther("falsy")],
              [kind |-> "non_json", value |-> JsonOther("falsy")]}
                 \cup {[kind |-> "json", value |-> v] : v \in JsonValues}

\* A response that conforms to the schema of the combined assessment
IsValidResponse(r) == r.kind = "json" /\ r.value \in ValidObjects

\* Python truthiness of a field fetched with dict.get
Truthy(field) == field \in {"true", "string"}

\* What summarize_recent_messages returns: None, or the text written for that request
SummaryText(message_type, at) == << "summary", message_type, at >>
SummaryOutcomes == {"none", "text"}
SummaryResult(outcome, message_type, at) ==
    IF outcome = "text" THEN SummaryText(message_type, at) ELSE NoSummary

\* What send_markdown_email does
SendOutcomes == {"sent", "failed", "raised"}

\* (a variant that refuses the new element when the deque is full)
DequeAppend_keep_oldest(buf, e, maxlen) ==
    IF Len(buf) >= maxlen THEN buf ELSE Append(buf, e)

\* deque(maxlen=n).append(e)
DequeAppend(buf, e, maxlen) ==
    IF maxlen = 0 THEN << >>
    ELSE IF Len(buf) >= maxlen THEN Append(Tail(buf), e)
    ELSE Append(buf, e)

\* analyze_market_volatility: None, or whatever json.loads returned
analyze_market_volatility(response) ==
    IF response.kind = "json" THEN response.value ELSE NoResult

\* (a variant without the try block around send_markdown_email)
SendPropagates_uncaught(send_outcome) == send_outcome = "raised"

\* whether an exception of send_markdown_email leaves _send_alert_email: the
\* call is inside try / except Exception, which logs it
SendPropagates(send_outcome) == FALSE

\* _send_alert_email: the report handed to send_markdown_email, or an exception
\* raised while the report is being composed (before the try block)
send_alert_email(result, channel_summary, group_summary, send_outcome) ==
    IF result.topics = "number" \/ result.conf = "string"
    THEN [alerts |-> << >>, raised |-> TRUE]
    ELSE [alerts |-> << [volatility_status |-> Truthy(result.vol),
                         activity_status |-> Truthy(result.act),
                         confidence |-> IF result.conf = "missing" THEN "0.0" ELSE result.conf,
                         hot_topics |-> IF result.topics = "missing" THEN "no topics" ELSE result.topics,
                         summary |-> IF result.summary = "missing" THEN "no details" ELSE result.summary,
                         channel_summary |-> IF channel_summary = NoSummary THEN << "no summary" >> ELSE channel_summary,
                         group_summary |-> IF group_summary = NoSummary THEN << "no summary" >> ELSE group_summary,
                         outcome |-> send_outcome] >>,
          raised |-> SendPropagates(send_outcome)]

\* (a variant that asks for both signals)
SignalRaised_both(result) == Truthy(result.vol) /\ Truthy(result.act)

\* the condition under which analyze_messages sends the alert
SignalRaised(result) == Truthy(result.vol) \/ Truthy(result.act)

\* analyze_messages: the summaries it asked for, the alerts it sent, and whether it raised
analyze_messages(response, ch_outcome, gr_outcome, send_outcome, at) ==
    LET volatility_result == analyze_market_volatility(response)
        channel_summary == SummaryResult(ch_outcome, "channel", at)
        group_summary == SummaryResult(gr_outcome, "group", at)
        summaries == << [message_type |-> "channel", by |-> "analysis", result |-> channel_summary],
                        [message_type |-> "group", by |-> "analysis", result |-> group_summary] >>
    IN  IF volatility_result.type \in {"None", "falsy"}
        THEN [summaries |-> << >>, alerts |-> << >>, raised |-> FALSE]
        ELSE IF volatility_result.type = "non_object"
        THEN \* volatility_result.get raises AttributeError
             [summaries |-> summaries, alerts |-> << >>, raised |-> TRUE]
        ELSE IF SignalRaised(volatility_result)
        THEN [summaries |-> summaries]
                 @@ send_alert_email(volatility_result, channel_summary, group_summary, send_outcome)
        ELSE [summaries |-> summaries, alerts |-> << >>, raised |-> FALSE]

\* (a variant with a strict comparison)
TriggerDue_strict(count, last_count, interval) == count - last_count > interval

\* the trigger condition of a counter
TriggerDue(count, last_count, interval) == count - last_count >= interval

\* (a variant that leaves the baseline where it was)
NextBaseline_stale(fired, count, last_count) == last_count

\* the baseline of a counter after its trigger was evaluated
NextBaseline(fired, count, last_count) == IF fired THEN count ELSE last_count

NoAnalysis == [summaries |-> << >>, alerts |-> << >>, raised |-> FALSE]

\* no call of add_message is being reported
NoCall == [msg_type |-> "none", category_fired |-> FALSE, analysis_fired |-> FALSE,
           response |-> [kind |-> "api_fail", value |-> JsonOther("falsy")],
           summaries |-> << >>, alerts |-> << >>, raised |-> FALSE]

EngineInit ==
    /\ message_buffer_size \in 1..MaxBuffer
    /\ analysis_interval \in 1..MaxInterval
    /\ summary_interval_channel \in 1..MaxInterval
    /\ summary_interval_group \in 1..MaxInterval
    /\ message_buffer = << >>
    /\ message_count = 0
    /\ last_analysis_count = 0
    /\ channel_message_count = 0
    /\ group_message_count = 0
    /\ last_channel_summary_count = 0
    /\ last_group_summary_count = 0
    /\ last = NoCall

\* (a variant that takes a message of no known type for a channel message)
CountsAs_default(msg_type, category) ==
    msg_type = category \/ (msg_type = "unknown" /\ category = "channel")

\* the branch of add_message a message takes: if msg_type == "channel",
\* elif msg_type == "group", and no branch otherwise
CountsAs(msg_type, category) == msg_type = category

\* add_message(message_data), with the collaborators' answers as inputs
add_message(msg_type, cat_outcome, response, ch_outcome, gr_outcome, send_outcome) ==
    LET message_data == [message_type |-> msg_type, id |-> message_count + 1]
        count1 == message_count + 1
        ch1 == IF CountsAs(msg_type, "channel") THEN channel_message_count + 1 ELSE channel_message_count
        gr1 == IF CountsAs(msg_type, "group") THEN group_message_count + 1 ELSE group_message_count
        ch_fire == CountsAs(msg_type, "channel")
                     /\ TriggerDue(ch1, last_channel_summary_count, summary_interval_channel)
        gr_fire == CountsAs(msg_type, "group")
                     /\ TriggerDue(gr1, last_group_summary_count, summary_interval_group)
        cat_summaries ==
            IF ch_fire \/ gr_fire
            THEN << [message_type |-> msg_type, by |-> "category",
                     result |-> SummaryResult(cat_outcome, msg_type, count1)] >>
            ELSE << >>
        an_fire == TriggerDue(count1, last_analysis_count, analysis_interval)
        an == IF an_fire
              THEN analyze_messages(response, ch_outcome, gr_outcome, send_outcome, count1)
              ELSE NoAnalysis
    IN  /\ message_buffer' = DequeAppend(message_buffer, message_data, message_buffer_size)
        /\ message_count' = count1
        /\ channel_message_count' = ch1
        /\ group_message_count' = gr1
        /\ last_channel_summary_count' = NextBaseline(ch_fire, ch1, last_channel_summary_count)
        /\ last_group_summary_count' = NextBaseline(gr_fire, gr1, last_group_summary_count)
        \* line 120 is not reached when analyze_messages raises
        /\ last_analysis_count' = NextBaseline(an_fire /\ ~an.raised, count1, last_analysis_count)
        /\ last' = [msg_type |-> msg_type, category_fired |-> ch_fire \/ gr_fire,
                    analysis_fired |-> an_fire,
                    response |-> response,
                    summaries |-> cat_summaries \o an.summaries,
                    alerts |-> an.alerts, raised |-> an.raised]
        /\ UNCHANGED << message_buffer_size, analysis_interval, summary_interval_channel,
                        summary_interval_group >>
        /\ UNCHANGED << cacheVars, streamVars, busVars, moreVars >>

\* The collaborators answer only when they are called: the inputs a call of
\* add_message does not consult are fixed.
CategoryDue(msg_type) ==
    \/ CountsAs(msg_type, "channel")
         /\ TriggerDue(channel_message_count + 1, last_channel_summary_count,
                       summary_interval_channel)
    \/ CountsAs(msg_type, "group")
         /\ TriggerDue(group_message_count + 1, last_group_summary_count,
                       summary_interval_group)

AnalysisDue == TriggerDue(message_count + 1, last_analysis_count, analysis_interval)

NoResponse == [kind |-> "api_fail", value |-> JsonOther("falsy")]

\* analyze_messages asks for the two summaries when the result is truthy
AsksSummaries(response) ==
    response.kind = "json" /\ response.value.type \in {"non_object", "object"}

\* analyze_messages reaches send_markdown_email
ReachesSend(response) ==
    /\ response.kind = "json" /\ response.value.type = "object"
    /\ SignalRaised(response.value)
    /\ response.value.topics # "number" /\ response.value.conf # "string"

\* NewsProcessor.process_news after add_message has returned or raised: the
\* outcome is logged and the listener loop goes on to the next message
process_news_done ==
    /\ last.msg_type # "none"
    /\ last' = NoCall
    /\ UNCHANGED << message_buffer_size, analysis_interval, summary_interval_channel,
                    summary_interval_group, message_buffer, message_count,
                    last_analysis_count, channel_message_count, group_message_count,
                    last_channel_summary_count, last_group_summary_count >>
    /\ UNCHANGED << cacheVars, streamVars, busVars, moreVars >>

process_news ==
    /\ message_count < MaxEvents
    /\ last.msg_type = "none"
    /\ \E msg_type \in MessageTypes :
         \E cat_outcome \in IF CategoryDue(msg_type) THEN SummaryOutcomes ELSE {"none"} :
         \E response \in IF AnalysisDue THEN Responses ELSE {NoResponse} :
         \E ch_outcome \in IF AnalysisDue /\ AsksSummaries(response) THEN SummaryOutcomes ELSE {"none"} :
         \E gr_outcome \in IF AnalysisDue /\ AsksSummaries(response) THEN SummaryOutcomes ELSE {"none"} :
         \E send_outcome \in IF AnalysisDue /\ ReachesSend(response) THEN SendOutcomes ELSE {"sent"} :
            add_message(msg_type, cat_outcome, response, ch_outcome, gr_outcome, send_outcome)

EngineNext == process_news \/ process_news_done


(***************************************************************************)
(*                            MonitoredCache                               *)
(***************************************************************************)

Keys == {"k1", "k2"}
Values == {"v1", "v2"}
\* the thread that uses the cache: MarketDataProcessor's listener
Clients == {"listener"}
Absent == "None"

HasKey(data, k) == \E i \in DOMAIN data : data[i].key = k
IndexOf(data, k) == CHOOSE i \in DOMAIN data : data[i].key = k
KeysOf(data) == { data[i].key : i \in DOMAIN data }

\* self._data[key] = (value, now): an existing key keeps its place in the dict
PutEntry(data, k, v, now) ==
    IF HasKey(data, k)
    THEN [data EXCEPT ![IndexOf(data, k)] = [key |-> k, value |-> v, ts |-> now]]
    ELSE Append(data, [key |-> k, value |-> v, ts |-> now])

\* del self._data[key]
RemoveKey(data, k) == SelectSeq(data, LAMBDA e : e.key # k)

\* (a variant that takes the last of the newest)
OldestKey_newest(data) ==
    LET i == CHOOSE i \in DOMAIN data :
                 /\ \A j \in DOMAIN data : data[i].ts >= data[j].ts
                 /\ \A j \in (i + 1)..Len(data) : data[j].ts < data[i].ts
    IN  data[i].key

\* min(self._data.items(), key=lambda x: x[1][1])[0]: the first of the oldest
OldestKey(data) ==
    LET i == CHOOSE i \in DOMAIN data :
                 /\ \A j \in DOMAIN data : data[i].ts <= data[j].ts
                 /\ \A j \in 1..(i - 1) : data[j].ts > data[i].ts
    IN  data[i].key

\* len(self._data) > self.maxsize
OverCapacity(n, max) == n > max

\* (a variant that lets an entry live one time unit longer)
Expired_late(now, ts, life) == now - ts > life + 1

\* now - ts > self.ttl
Expired(now, ts, life) == now - ts > life

\* the keys _monitor_expiry collects under the lock, in the dict's order
ExpiredKeys(data, now, life) ==
    LET old == SelectSeq(data, LAMBDA e : Expired(now, e.ts, life))
    IN  [i \in DOMAIN old |-> old[i].key]

\* get: item[0] if item else None
Lookup(data, k) == IF HasKey(data, k) THEN data[IndexOf(data, k)].value ELSE Absent

Idle == [pc |-> "idle", key |-> "none", value |-> "none", returned |-> "none", ret |-> Absent]

CacheInit ==
    /\ maxsize \in 1..MaxSize
    /\ ttl \in 1..MaxTtl
    /\ cache_data = << >>
    /\ cache_lock = "free"
    /\ stop_event = FALSE
    /\ monitor = [pc |-> "check", now |-> 0, expired |-> << >>, wake |-> 0, removed |-> {}]
    /\ client = [t \in Clients |-> Idle]
    /\ clock = 0
    /\ calls = 0

\* a thread calls cache[key] = value, cache.get(key) or del cache[key], and
\* arrives at the method's "with self._lock"
Call(t, op, k, v) ==
    /\ client[t].pc = "idle"
    /\ calls < MaxCalls
    /\ calls' = calls + 1
    /\ client' = [client EXCEPT ![t] = [pc |-> op, key |-> k, value |-> v,
                                        returned |-> "none", ret |-> Absent]]
    /\ UNCHANGED << maxsize, ttl, cache_data, cache_lock, stop_event, monitor, clock >>
    /\ UNCHANGED << engineVars, streamVars, busVars, moreVars >>

\* __setitem__, from taking the lock to its return, or to the point where it
\* waits for the lock again inside __delitem__
setitem(t) ==
    /\ client[t].pc = "set"
    /\ cache_lock = "free"
    /\ LET k == client[t].key
           v == client[t].value
           stored == PutEntry(cache_data, k, v, clock)
       IN  /\ cache_data' = stored
           /\ IF HasKey(cache_data, k) /\ Lookup(cache_data, k) = v
              THEN \* unchanged value: refresh the timestamp and return
                   /\ cache_lock' = "free"
                   /\ client' = [client EXCEPT ![t].pc = "idle", ![t].returned = "set"]
              ELSE IF OverCapacity(Len(stored), maxsize)
              THEN \* self.__delitem__(oldest_key), called with the lock held
                   /\ cache_lock' = t
                   /\ client' = [client EXCEPT ![t].pc = "evict",
                                               ![t].key = OldestKey(stored)]
              ELSE /\ cache_lock' = "free"
                   /\ client' = [client EXCEPT ![t].pc = "idle", ![t].returned = "set"]
    /\ UNCHANGED << maxsize, ttl, stop_event, monitor, clock, calls >>
    /\ UNCHANGED << engineVars, streamVars, busVars, moreVars >>

\* get
get(t) ==
    /\ client[t].pc = "get"
    /\ cache_lock = "free"
    /\ client' = [client EXCEPT ![t].pc = "idle", ![t].returned = "get",
                                ![t].ret = Lookup(cache_data, client[t].key)]
    /\ UNCHANGED << maxsize, ttl, cache_data, cache_lock, stop_event, monitor, clock, calls >>
    /\ UNCHANGED << engineVars, streamVars, busVars, moreVars >>

\* __delitem__, called by a client or by __setitem__ for the oldest key: "with
\* self._lock" once the lock is free, then the removal and the return (of both
\* methods, when __setitem__ is the caller)
delitem(t) ==
    /\ client[t].pc \in {"del", "evict"}
    /\ cache_lock = "free"
    /\ cache_data' = RemoveKey(cache_data, client[t].key)
    /\ client' = [client EXCEPT ![t].pc = "idle",
                                ![t].returned = IF client[t].pc = "del" THEN "del" ELSE "set"]
    /\ UNCHANGED << maxsize, ttl, cache_lock, stop_event, monitor, clock, calls >>
    /\ UNCHANGED << engineVars, streamVars, busVars, moreVars >>

\* stop(): set the event, then join the monitor thread
stop(t) ==
    /\ client[t].pc = "idle"
    /\ ~stop_event
    /\ calls < MaxCalls
    /\ calls' = calls + 1
    /\ stop_event' = TRUE
    /\ client' = [client EXCEPT ![t] = [Idle EXCEPT !.pc = "join"]]
    /\ UNCHANGED << maxsize, ttl, cache_data, cache_lock, monitor, clock >>
    /\ UNCHANGED << engineVars, streamVars, busVars, moreVars >>

\* (a variant that does not wait for the monitor thread)
Joined_eager(m) == TRUE

\* _monitor_thread.join() returns when the monitor thread has ended
Joined(m) == m.pc = "exited"

\* stop(): the join returns
stop_joined(t) ==
    /\ client[t].pc = "join"
    /\ Joined(monitor)
    /\ client' = [client EXCEPT ![t].pc = "idle", ![t].returned = "stop"]
    /\ UNCHANGED << maxsize, ttl, cache_data, cache_lock, stop_event, monitor, clock, calls >>
    /\ UNCHANGED << engineVars, streamVars, busVars, moreVars >>

\* _monitor_expiry: the loop test and "now = time.time()"
monitor_check ==
    /\ monitor.pc = "check"
    /\ monitor' = IF stop_event
                  THEN [monitor EXCEPT !.pc = "exited"]
                  ELSE [monitor EXCEPT !.pc = "scan", !.now = clock, !.removed = {}]
    /\ UNCHANGED << maxsize, ttl, cache_data, cache_lock, stop_event, client, clock, calls >>
    /\ UNCHANGED << engineVars, streamVars, busVars, moreVars >>

\* _monitor_expiry: the scan under the lock
monitor_scan ==
    /\ monitor.pc = "scan"
    /\ cache_lock = "free"
    /\ LET expired == ExpiredKeys(cache_data, monitor.now, ttl)
       IN  monitor' = [monitor EXCEPT !.expired = expired,
                                      !.pc = IF expired = << >> THEN "sleep" ELSE "delete",
                                      !.wake = clock + 1]
    /\ UNCHANGED << maxsize, ttl, cache_data, cache_lock, stop_event, client, clock, calls >>
    /\ UNCHANGED << engineVars, streamVars, busVars, moreVars >>

\* _monitor_expiry: self.__delitem__(key) for the next collected key
monitor_delete ==
    /\ monitor.pc = "delete"
    /\ cache_lock = "free"
    /\ LET k == Head(monitor.expired)
           rest == Tail(monitor.expired)
       IN  /\ cache_data' = RemoveKey(cache_data, k)
           /\ monitor' = [monitor EXCEPT !.expired = rest,
                                          !.removed = IF HasKey(cache_data, k)
                                                      THEN @ \cup {k} ELSE @,
                                          !.pc = IF rest = << >> THEN "sleep" ELSE "delete",
                                          !.wake = clock + 1]
    /\ UNCHANGED << maxsize, ttl, cache_lock, stop_event, client, clock, calls >>
    /\ UNCHANGED << engineVars, streamVars, busVars, moreVars >>

\* _monitor_expiry: time.sleep(1) is over
monitor_wake ==
    /\ monitor.pc = "sleep"
    /\ clock >= monitor.wake
    /\ monitor' = [monitor EXCEPT !.pc = "check"]
    /\ UNCHANGED << maxsize, ttl, cache_data, cache_lock, stop_event, client, clock, calls >>
    /\ UNCHANGED << engineVars, streamVars, busVars, moreVars >>

\* time passes
Tick ==
    /\ clock < MaxTime
    /\ clock' = clock + 1
    /\ UNCHANGED << maxsize, ttl, cache_data, cache_lock, stop_event, monitor, client, calls >>
    /\ UNCHANGED << engineVars, streamVars, busVars, moreVars >>

CacheNext ==
    \/ \E t \in Clients, k \in Keys, v \in Values : Call(t, "set", k, v)
    \/ \E t \in Clients, k \in Keys : Call(t, "get", k, "none")
    \/ \E t \in Clients, k \in Keys : Call(t, "del", k, "none")
    \/ \E t \in Clients : setitem(t)
    \/ \E t \in Clients : get(t)
    \/ \E t \in Clients : delitem(t)
    \/ \E t \in Clients : stop(t)
    \/ \E t \in Clients : stop_joined(t)
    \/ monitor_check
    \/ monitor_scan
    \/ monitor_delete
    \/ monitor_wake
    \/ Tick


(***************************************************************************)
(*              BinanceUSDMarginFetcher: the stream tasks                  *)
(***************************************************************************)

MAX_RECONNECT_ATTEMPTS == 5
RECONNECT_DELAY == 5
MAX_RECONNECT_DELAY == 60

\* one task per (symbol, channel)
Streams == {"BTCUSDT/aggTrade", "BTCUSDT/depth"}

\* (a variant without the cap)
BackoffDelay_uncapped(n) == RECONNECT_DELAY * (2 ^ (n - 1))

\* min(RECONNECT_DELAY * (2 ** (reconnect_attempts - 1)), MAX_RECONNECT_DELAY)
BackoffDelay(n) == Min(RECONNECT_DELAY * (2 ^ (n - 1)), MAX_RECONNECT_DELAY)

\* (a variant that allows one attempt more)
GivesUp_late(n) == n > MAX_RECONNECT_ATTEMPTS + 1

\* if reconnect_attempts > MAX_RECONNECT_ATTEMPTS: break
GivesUp(n) == n > MAX_RECONNECT_ATTEMPTS

\* (a variant where the counter is one attribute shared by all the tasks)
CounterOwners_shared(s) == Streams

\* reconnect_attempts is a local variable of the task's own _handle_socket call
CounterOwners(s) == {s}

\* pc: where the task is; tries: connections attempted; msgs: messages received
\* and handed to the handler; errors: reads (or handlers) that raised
NoTask == [pc |-> "none", reconnect_attempts |-> 0, delay |-> 0, delays |-> << >>,
           cancel |-> FALSE, why |-> "none", tries |-> 0, msgs |-> 0, errors |-> 0]

\* the caller of stop(): pc is "idle", "draining" (at gather) or "closing" (at
\* close_connection); waits: the tasks gather was given; calls, returned: the
\* calls of stop() made and ended; sealed: a stop() has returned after start()
\* was called
NoStop == [pc |-> "idle", waits |-> {}, calls |-> 0, returned |-> 0, sealed |-> FALSE]

StreamInit ==
    /\ is_running = FALSE
    /\ fetcher = "init"
    /\ stream = [s \in Streams |-> NoTask]
    /\ stopper = NoStop

\* start(): up to the first await (AsyncClient.create())
start_begin ==
    /\ fetcher = "init"
    /\ ~is_running
    /\ is_running' = TRUE
    /\ fetcher' = "starting"
    /\ UNCHANGED << stream, stopper >>
    /\ UNCHANGED << engineVars, cacheVars, busVars, moreVars >>

\* start(): _subscribe_streams creates the tasks, then gather waits for them
start_subscribe ==
    /\ fetcher = "starting"
    /\ fetcher' = "gathering"
    /\ stream' = [s \in Streams |-> [NoTask EXCEPT !.pc = "created"]]
    /\ UNCHANGED << is_running, stopper >>
    /\ UNCHANGED << engineVars, cacheVars, busVars, moreVars >>

\* a call of stop() has returned
Returned(st) ==
    [st EXCEPT !.pc = "idle", !.waits = {}, !.returned = @ + 1,
               !.sealed = @ \/ fetcher # "init"]

\* stop(): return at once when not running; otherwise clear the flag, cancel
\* every task in _tasks and wait for them in gather
StopCall ==
    /\ IF ~is_running
       THEN /\ stopper' = [Returned(stopper) EXCEPT !.calls = @ + 1,
                                                    !.pc = stopper.pc,
                                                    !.waits = stopper.waits]
            /\ UNCHANGED << is_running, stream >>
       ELSE /\ is_running' = FALSE
            /\ stream' = [s \in Streams |->
                            IF stream[s].pc \in {"none", "exited"} THEN stream[s]
                            ELSE [stream[s] EXCEPT !.cancel = TRUE]]
            /\ stopper' = [stopper EXCEPT !.calls = @ + 1, !.pc = "draining",
                              !.waits = { s \in Streams : stream[s].pc # "none" }]
    /\ UNCHANGED fetcher

stop_fetcher ==
    /\ stopper.calls < MaxStops
    /\ StopCall
    /\ UNCHANGED << engineVars, cacheVars, busVars, moreVars >>

\* stop(): gather(*self._tasks, return_exceptions=True) is over, every task it
\* waited for has ended; then "if self.client"
stop_drained ==
    /\ stopper.pc = "draining"
    /\ \A s \in stopper.waits : stream[s].pc = "exited"
    /\ stopper' = IF fetcher = "gathering"
                  THEN [stopper EXCEPT !.pc = "closing"]
                  ELSE Returned(stopper)
    /\ UNCHANGED << is_running, fetcher, stream >>
    /\ UNCHANGED << engineVars, cacheVars, busVars, moreVars >>

\* stop(): client.close_connection() is over; stop() returns
stop_closed ==
    /\ stopper.pc = "closing"
    /\ stopper' = Returned(stopper)
    /\ UNCHANGED << is_running, fetcher, stream >>
    /\ UNCHANGED << engineVars, cacheVars, busVars, moreVars >>

\* the CancelledError reaches the task at its await (or before its first step);
\* inside "async with" the context is left first
task_cancelled(s) ==
    /\ stream[s].cancel
    /\ stream[s].pc \in {"created", "connecting", "connected", "sleeping"}
    /\ stream' = IF stream[s].pc = "connected"
                 THEN [stream EXCEPT ![s].pc = "closing", ![s].cancel = FALSE]
                 ELSE [stream EXCEPT ![s].pc = "exited", ![s].why = "cancelled",
                                     ![s].cancel = FALSE]
    /\ UNCHANGED << is_running, fetcher, stopper >>
    /\ UNCHANGED << engineVars, cacheVars, busVars, moreVars >>

\* the socket context's exit is over: "except asyncio.CancelledError: break"
close_done(s) ==
    /\ stream[s].pc = "closing"
    /\ stream' = [stream EXCEPT ![s].pc = "exited", ![s].why = "cancelled"]
    /\ UNCHANGED << is_running, fetcher, stopper >>
    /\ UNCHANGED << engineVars, cacheVars, busVars, moreVars >>

\* (a variant that does not look at the flag)
LoopHead_always(task) == [task EXCEPT !.pc = "connecting"]

\* "while self._is_running" at the head of _handle_socket's outer loop
LoopHead(task) ==
    IF is_running
    THEN [task EXCEPT !.pc = "connecting"]
    ELSE [task EXCEPT !.pc = "exited", !.why = "stopped"]

\* the task takes its first step
task_begin(s) ==
    /\ stream[s].pc = "created" /\ ~stream[s].cancel
    /\ stream' = [stream EXCEPT ![s] = LoopHead(stream[s])]
    /\ UNCHANGED << is_running, fetcher, stopper >>
    /\ UNCHANGED << engineVars, cacheVars, busVars, moreVars >>

\* "async with socket_context as stream" succeeds
connect_ok(s) ==
    /\ stream[s].pc = "connecting" /\ ~stream[s].cancel
    /\ stream' = [stream EXCEPT ![s].pc = "connected", ![s].reconnect_attempts = 0,
                                ![s].delays = << >>, ![s].tries = @ + 1]
    /\ UNCHANGED << is_running, fetcher, stopper >>
    /\ UNCHANGED << engineVars, cacheVars, busVars, moreVars >>

\* "async with socket_context as stream" raises: the except Exception branch
connect_fail(s) ==
    /\ stream[s].pc = "connecting" /\ ~stream[s].cancel
    /\ LET n == stream[s].reconnect_attempts + 1
           counted == [t \in Streams |->
                          IF t \in CounterOwners(s)
                          THEN [stream[t] EXCEPT !.reconnect_attempts = n]
                          ELSE stream[t]]
       IN  stream' =
             IF ~is_running
             THEN [stream EXCEPT ![s].pc = "exited", ![s].why = "stopped",
                                 ![s].tries = @ + 1]
             ELSE IF GivesUp(n)
             THEN [counted EXCEPT ![s].pc = "exited", ![s].why = "gave_up",
                                  ![s].tries = @ + 1]
             ELSE [counted EXCEPT ![s].pc = "sleeping", ![s].tries = @ + 1,
                                  ![s].delay = BackoffDelay(n),
                                  ![s].delays = Append(@, BackoffDelay(n))]
    /\ UNCHANGED << is_running, fetcher, stopper >>
    /\ UNCHANGED << engineVars, cacheVars, busVars, moreVars >>

\* asyncio.sleep(delay) is over: back to the head of the loop
sleep_done(s) ==
    /\ stream[s].pc = "sleeping" /\ ~stream[s].cancel
    /\ stream' = [stream EXCEPT ![s] = LoopHead(stream[s])]
    /\ UNCHANGED << is_running, fetcher, stopper >>
    /\ UNCHANGED << engineVars, cacheVars, busVars, moreVars >>

\* the inner loop: stream.recv() returns a message and message_handler(msg)
\* classifies and publishes it; back to "while self._is_running"
recv_msg(s) ==
    /\ stream[s].pc = "connected" /\ ~stream[s].cancel
    /\ is_running
    /\ stream[s].msgs + stream[s].errors < MaxReads
    /\ stream' = [stream EXCEPT ![s].msgs = @ + 1]
    /\ UNCHANGED << is_running, fetcher, stopper >>
    /\ UNCHANGED << engineVars, cacheVars, busVars, moreVars >>

\* the inner loop: stream.recv() (or the handler) raises an Exception: it is
\* logged and the loop continues with the next recv()
recv_error(s) ==
    /\ stream[s].pc = "connected" /\ ~stream[s].cancel
    /\ is_running
    /\ stream[s].msgs + stream[s].errors < MaxReads
    /\ stream' = [stream EXCEPT ![s].errors = @ + 1]
    /\ UNCHANGED << is_running, fetcher, stopper >>
    /\ UNCHANGED << engineVars, cacheVars, busVars, moreVars >>

StreamNext ==
    \/ start_begin
    \/ start_subscribe
    \/ stop_fetcher
    \/ stop_drained
    \/ stop_closed
    \/ \E s \in Streams : task_cancelled(s)
    \/ \E s \in Streams : close_done(s)
    \/ \E s \in Streams : task_begin(s)
    \/ \E s \in Streams : connect_ok(s)
    \/ \E s \in Streams : connect_fail(s)
    \/ \E s \in Streams : sleep_done(s)
    \/ \E s \in Streams : recv_msg(s)
    \/ \E s \in Streams : recv_error(s)

(***************************************************************************)
(*                    ZMQManager and main's start-up                       *)
(***************************************************************************)

\* strings are sequences of characters
Trade == << "t", "r", "a", "d", "e" >>
Depth == << "d", "e", "p", "t", "h" >>
Trades == << "t", "r", "a", "d", "e", "s" >>
Btc == << "b", "t", "c" >>
Eth == << "e", "t", "h" >>

\* f"{self.trade_topic}.{symbol}"
ComposeTopic(base, qualifier) == base \o << "." >> \o qualifier

Bases == {Trade, Depth}
Qualifiers == {Btc, Eth}
\* the topics messages are published under
Topics == { ComposeTopic(Trade, q) : q \in Qualifiers }
              \cup {ComposeTopic(Depth, Btc), Trades}

\* the lists of topics given to get_subscriber
FilterLists == { << Trade >>,
                 << Trade, ComposeTopic(Trade, Btc) >>,
                 << ComposeTopic(Trade, Btc), ComposeTopic(Depth, Btc) >> }

Addresses == {"news", "market"}
\* message payloads: "set" stands for a value json.dumps cannot serialize
Payloads == {"dict", "set"}

\* json.dumps(message): raises TypeError for a value that is not serializable
Serializable(payload) == payload # "set"

\* json.dumps(message).encode("utf-8")
Dumps(payload) == << "json", payload >>

\* json.loads(message_bytes.decode("utf-8"))
Loads(bytes) == bytes[2]

\* str.startswith, as the SUB socket applies a zmq.SUBSCRIBE filter to the
\* first frame
StartsWith(topic, filter) ==
    /\ Len(filter) <= Len(topic)
    /\ SubSeq(topic, 1, Len(filter)) = filter

\* (a variant that matches whole topics only)
Matches_exact(filters, topic) == \E i \in DOMAIN filters : filters[i] = topic

\* the subscriptions of one SUB socket: setsockopt_string(zmq.SUBSCRIBE, topic)
\* for each topic of the list
Matches(filters, topic) == \E i \in DOMAIN filters : StartsWith(topic, filters[i])

\* (a variant that queues the message once per matching subscription)
Copies_per_filter(filters, topic) ==
    Cardinality({ i \in DOMAIN filters : StartsWith(topic, filters[i]) })

\* a SUB socket queues a message it is subscribed to once
Copies(filters, topic) == IF Matches(filters, topic) THEN 1 ELSE 0

\* (a variant that binds again for a registered address)
Registered_never(pubs, address) == FALSE

\* address in self.publishers
Registered(pubs, address) == pubs[address] # 0

\* (a variant that logs the error and goes on)
Raises_swallowed(outcome) == FALSE

\* except zmq.ZMQError: ... raise
Raises(outcome) == outcome = "error"

\* (a variant that sends whatever became of the payload)
FrameSent_always(payload, send_outcome) == send_outcome = "ok"

\* publish_message's try block: the frame goes out when json.dumps and
\* send_multipart both succeed
FrameSent(payload, send_outcome) == Serializable(payload) /\ send_outcome = "ok"

NoBusCall == [op |-> "none", address |-> "none", raised |-> FALSE, handle |-> 0,
              bind_failed |-> FALSE, topic |-> << >>, payload |-> "none", sent |-> FALSE,
              drops |-> 0]

\* main(): pc is where main is; listeners, fetchers: whether they were started
\* stops: the stop steps of the finally block that have returned, in order
AppInit == [pc |-> "init", listeners |-> FALSE, fetchers |-> FALSE, bind_failed |-> FALSE,
            stops |-> << >>]

BusInit ==
    /\ publishers = [a \in Addresses |-> 0]
    /\ sockets = 0
    /\ binds = [a \in Addresses |-> 0]
    /\ handed = [a \in Addresses |-> {}]
    /\ subscribers = << >>
    /\ frames = << >>
    /\ bus_calls = 0
    /\ bus_last = NoBusCall
    /\ app = AppInit

\* get_publisher(address), the bind ending as bind_outcome: the new values of
\* publishers, sockets, binds, handed and the record of the call
GetPublisher(address, bind_outcome) ==
    IF Registered(publishers, address)
    THEN [publishers |-> publishers, sockets |-> sockets, binds |-> binds,
          handed |-> [handed EXCEPT ![address] = @ \cup {publishers[address]}],
          last |-> [NoBusCall EXCEPT !.drops = bus_last.drops, !.op = "get_publisher", !.address = address,
                                     !.handle = publishers[address]]]
    ELSE IF Raises(bind_outcome)
    THEN [publishers |-> publishers, sockets |-> sockets + 1, binds |-> binds,
          handed |-> handed,
          last |-> [NoBusCall EXCEPT !.drops = bus_last.drops, !.op = "get_publisher", !.address = address,
                                     !.raised = TRUE, !.bind_failed = TRUE]]
    ELSE [publishers |-> [publishers EXCEPT ![address] = sockets + 1],
          sockets |-> sockets + 1,
          binds |-> IF bind_outcome = "ok" THEN [binds EXCEPT ![address] = @ + 1]
                    ELSE binds,
          handed |-> [handed EXCEPT ![address] = @ \cup {sockets + 1}],
          last |-> [NoBusCall EXCEPT !.drops = bus_last.drops, !.op = "get_publisher", !.address = address,
                                     !.handle = sockets + 1,
                                     !.bind_failed = (bind_outcome # "ok")]]

\* the bind is attempted only for an address that is not registered
BindOutcomes(address) ==
    IF Registered(publishers, address) THEN {"none"} ELSE {"ok", "error"}

\* a caller calls get_publisher(address)
get_publisher ==
    /\ bus_calls < MaxBusCalls
    /\ lifecycle.closes = 0
    /\ \E address \in Addresses :
       \E bind_outcome \in BindOutcomes(address) :
          LET r == GetPublisher(address, bind_outcome)
          IN  /\ publishers' = r.publishers
              /\ sockets' = r.sockets
              /\ binds' = r.binds
              /\ handed' = r.handed
              /\ bus_last' = r.last
    /\ bus_calls' = bus_calls + 1
    /\ UNCHANGED << subscribers, frames, app >>
    /\ UNCHANGED << engineVars, cacheVars, streamVars, moreVars >>

\* get_subscriber(address, topics): a new SUB socket, connected and subscribed
\* to each topic; a ZMQError is raised again
get_subscriber ==
    /\ bus_calls < MaxBusCalls
    /\ lifecycle.closes = 0
    /\ Len(subscribers) < MaxSubscribers
    /\ \E address \in Addresses, topics \in FilterLists, outcome \in {"ok", "error"} :
          /\ subscribers' = IF outcome = "ok"
                            THEN Append(subscribers,
                                        [address |-> address, filters |-> topics,
                                         inbox |-> << >>, got |-> << >>])
                            ELSE subscribers
          /\ bus_last' = [NoBusCall EXCEPT !.drops = bus_last.drops, !.op = "get_subscriber", !.address = address,
                                           !.raised = (outcome = "error"),
                                           !.handle = sockets + 1]
    /\ sockets' = sockets + 1
    /\ bus_calls' = bus_calls + 1
    /\ UNCHANGED << publishers, binds, handed, frames, app >>
    /\ UNCHANGED << engineVars, cacheVars, streamVars, moreVars >>

\* what the PUB socket bound to address does with a frame: every SUB socket
\* connected to the address queues it if it is subscribed to its topic
Deliver(subs, address, frame) ==
    [i \in DOMAIN subs |->
        IF subs[i].address = address /\ Copies(subs[i].filters, frame[1]) > 0
        THEN [subs[i] EXCEPT !.inbox =
                 @ \o [k \in 1..Copies(subs[i].filters, frame[1]) |-> frame]]
        ELSE subs[i]]

\* publish_message(publisher_socket, topic, message) on the handle registered
\* for an address; send_outcome is how send_multipart ends if it is called
publish_message ==
    /\ bus_calls < MaxBusCalls
    /\ \E address \in Addresses, topic \in Topics, payload \in Payloads :
          /\ publishers[address] # 0
          /\ \E send_outcome \in {"ok", "error"} :
                LET frame == << topic, Dumps(payload) >>
                    sent == FrameSent(payload, send_outcome)
                IN  /\ frames' = IF sent THEN Append(frames, frame) ELSE frames
                    /\ subscribers' = IF sent THEN Deliver(subscribers, address, frame)
                                      ELSE subscribers
                    /\ bus_last' = [NoBusCall EXCEPT !.drops = bus_last.drops
                                                       + (IF Serializable(payload) THEN 0 ELSE 1),
                                       !.op = "publish_message",
                                       !.address = address, !.handle = publishers[address],
                                       !.topic = topic, !.payload = payload,
                                       !.sent = sent]
    /\ bus_calls' = bus_calls + 1
    /\ UNCHANGED << publishers, sockets, binds, handed, app >>
    /\ UNCHANGED << engineVars, cacheVars, streamVars, moreVars >>

\* the listener's poll() finds a message and receive_message returns
\* (topic, message)
receive_message ==
    /\ \E i \in DOMAIN subscribers :
          /\ subscribers[i].inbox # << >>
          /\ LET frame == Head(subscribers[i].inbox)
             IN  subscribers' = [subscribers EXCEPT
                                    ![i].inbox = Tail(@),
                                    ![i].got = Append(@, << frame[1], Loads(frame[2]) >>)]
    /\ bus_last' = [NoBusCall EXCEPT !.drops = bus_last.drops, !.op = "receive_message"]
    /\ UNCHANGED << publishers, sockets, binds, handed, frames, bus_calls, app >>
    /\ UNCHANGED << engineVars, cacheVars, streamVars, moreVars >>

\* main(): a fetcher's constructor calls get_publisher(address); the
\* constructors are called outside main's try block
MainConstruct(to, address) ==
    /\ \E bind_outcome \in BindOutcomes(address) :
          LET r == GetPublisher(address, bind_outcome)
          IN  /\ publishers' = r.publishers
              /\ sockets' = r.sockets
              /\ binds' = r.binds
              /\ handed' = r.handed
              /\ bus_last' = r.last
              /\ app' = [app EXCEPT !.pc = IF r.last.raised THEN "crashed" ELSE to,
                                    !.bind_failed = @ \/ r.last.bind_failed]
    /\ UNCHANGED << subscribers, frames, bus_calls >>
    /\ UNCHANGED << engineVars, cacheVars, streamVars, moreVars >>

\* TelegramFetcher(zmq_manager)
main_telegram ==
    /\ app.pc = "init"
    /\ MainConstruct("telegram", "news")

\* BinanceUSDMarginFetcher(zmq_manager)
main_binance ==
    /\ app.pc = "telegram"
    /\ MainConstruct("binance", "market")

\* NewsProcessor(zmq_manager), MarketDataProcessor(zmq_manager), then the two
\* start_listening() calls
main_listeners ==
    /\ app.pc = "binance"
    /\ app' = [app EXCEPT !.pc = "listening", !.listeners = TRUE]
    /\ UNCHANGED << publishers, sockets, binds, handed, subscribers, frames,
                    bus_calls, bus_last >>
    /\ UNCHANGED << engineVars, cacheVars, streamVars, moreVars >>

\* the fetchers' start() tasks are created
main_fetchers ==
    /\ app.pc = "listening"
    /\ app' = [app EXCEPT !.pc = "running", !.fetchers = TRUE]
    /\ UNCHANGED << publishers, sockets, binds, handed, subscribers, frames,
                    bus_calls, bus_last >>
    /\ UNCHANGED << engineVars, cacheVars, streamVars, moreVars >>

\* the sockets of the context that are registered in publishers or subscribers
RegisteredSockets ==
    Cardinality({a \in Addresses : publishers[a] # 0}) + Len(subscribers)

\* the sockets get_publisher or get_subscriber created and then left behind when
\* bind or connect raised: neither registered nor closed
UnregisteredSockets == sockets - RegisteredSockets

\* the sockets of the context that are still open
OpenSockets ==
    (IF lifecycle.released THEN 0 ELSE RegisteredSockets)
       + (UnregisteredSockets - lifecycle.collected)

LifecycleInit ==
    lifecycle = [pc |-> "open", closes |-> 0, released |-> FALSE,
                 collected |-> 0, context |-> "open"]

\* close(): every registered publisher and subscriber is closed, then
\* context.term() is called
CloseBegin(lc) == [lc EXCEPT !.pc = "term", !.closes = @ + 1, !.released = TRUE]

close_begin ==
    /\ lifecycle.pc \in {"open", "closed"}
    /\ lifecycle.closes < MaxCloses
    /\ lifecycle' = CloseBegin(lifecycle)
    /\ UNCHANGED << listener, handled, ingest, market >>
    /\ UNCHANGED << engineVars, cacheVars, streamVars, busVars >>

\* context.term() returns: at once on a terminated context, otherwise when no
\* socket of the context is open any more
close_term ==
    /\ lifecycle.pc = "term"
    /\ lifecycle.context = "terminated" \/ OpenSockets = 0
    /\ lifecycle' = [lifecycle EXCEPT !.pc = "closed", !.context = "terminated"]
    /\ UNCHANGED << listener, handled, ingest, market >>
    /\ UNCHANGED << engineVars, cacheVars, streamVars, busVars >>

\* the garbage collector finalises a socket nothing refers to, which closes it
collect ==
    /\ lifecycle.collected < UnregisteredSockets
    /\ lifecycle' = [lifecycle EXCEPT !.collected = @ + 1]
    /\ UNCHANGED << listener, handled, ingest, market >>
    /\ UNCHANGED << engineVars, cacheVars, streamVars, busVars >>

CloseNext ==
    \/ get_publisher
    \/ get_subscriber
    \/ close_begin
    \/ close_term
    \/ collect

BusNext ==
    \/ get_publisher
    \/ get_subscriber
    \/ publish_message
    \/ receive_message
    \/ main_telegram
    \/ main_binance
    \/ main_listeners
    \/ main_fetchers

(***************************************************************************)
(* One specification per component; the other components stay as built.    *)
(***************************************************************************)
EngineIdle ==
    /\ message_buffer_size = 1 /\ analysis_interval = 1
    /\ summary_interval_channel = 1 /\ summary_interval_group = 1
    /\ message_buffer = << >> /\ message_count = 0 /\ last_analysis_count = 0
    /\ channel_message_count = 0 /\ group_message_count = 0
    /\ last_channel_summary_count = 0 /\ last_group_summary_count = 0
    /\ last = NoCall

CacheIdle ==
    /\ maxsize = 1 /\ ttl = 1
    /\ cache_data = << >> /\ cache_lock = "free" /\ stop_event = FALSE
    /\ monitor = [pc |-> "check", now |-> 0, expired |-> << >>, wake |-> 0, removed |-> {}]
    /\ client = [t \in Clients |-> Idle]
    /\ clock = 0 /\ calls = 0

(***************************************************************************)
(* NewsProcessor: start_listening, stop_listening and the listener thread. *)
(***************************************************************************)
\* Thread.is_alive() of the i-th thread that was started (0: no thread)
IsAlive(l, i) == i # 0 /\ l.threads[i] # "exited"

\* (a variant that never finds a listener running)
AlreadyRunning_never(l) == FALSE

\* the test start_listening makes before it starts a thread
AlreadyRunning(l) == IsAlive(l, l.thread)

\* (a variant whose loop ends on every exception)
AfterException_break(exc) == "exited"

\* the except clauses of the loop in _listen: a zmq.ZMQError breaks the loop,
\* any other Exception is logged and the loop goes on
AfterException(exc) == IF exc = "ZMQError" THEN "exited" ELSE "loop"

\* errors counts the exceptions raised while a delivered message was being
\* processed, exc is the class of the last exception a thread has caught
ListenerInit ==
    listener = [threads |-> << >>, thread |-> 0, stop_event |-> FALSE,
                caller |-> "idle", calls |-> 0, fed |-> 0,
                errors |-> 0, exc |-> "none"]

\* start_listening(): returns if the thread is alive, otherwise clears the
\* stop event and starts a new thread on _listen
StartListening(l) ==
    IF AlreadyRunning(l)
    THEN l
    ELSE [l EXCEPT !.stop_event = FALSE,
                   !.threads = Append(@, "subscribing"),
                   !.thread = Len(l.threads) + 1]

start_listening ==
    /\ listener.caller = "idle"
    /\ listener.calls < MaxListenerCalls
    /\ listener' = [StartListening(listener) EXCEPT !.calls = @ + 1]
    /\ UNCHANGED << lifecycle, handled, ingest, market >>
    /\ UNCHANGED << engineVars, cacheVars, streamVars, busVars >>

\* stop_listening(): returns if no thread is alive, otherwise sets the stop
\* event and joins the thread
StopListening(l) ==
    IF ~IsAlive(l, l.thread)
    THEN l
    ELSE [l EXCEPT !.stop_event = TRUE, !.caller = "joining"]

stop_listening ==
    /\ listener.caller = "idle"
    /\ listener.calls < MaxListenerCalls
    /\ listener' = [StopListening(listener) EXCEPT !.calls = @ + 1]
    /\ UNCHANGED << lifecycle, handled, ingest, market >>
    /\ UNCHANGED << engineVars, cacheVars, streamVars, busVars >>

\* _thread.join() returns when the thread has finished; _thread = None
stop_listening_joined ==
    /\ listener.caller = "joining"
    /\ ~IsAlive(listener, listener.thread)
    /\ listener' = [listener EXCEPT !.caller = "idle", !.thread = 0]
    /\ UNCHANGED << lifecycle, handled, ingest, market >>
    /\ UNCHANGED << engineVars, cacheVars, streamVars, busVars >>

\* _listen: get_subscriber returns the subscriber, or raises and ends the thread
listen_subscribe(i) ==
    /\ listener.threads[i] = "subscribing"
    /\ \E outcome \in {"ok", "error"} :
          listener' = [listener EXCEPT
                          !.threads[i] = IF outcome = "ok" THEN "loop" ELSE "exited"]
    /\ UNCHANGED << lifecycle, handled, ingest, market >>
    /\ UNCHANGED << engineVars, cacheVars, streamVars, busVars >>

\* _listen: the loop condition; the loop ends when the stop event is set
listen_check(i) ==
    /\ listener.threads[i] = "loop"
    /\ listener' = [listener EXCEPT
                       !.threads[i] = IF listener.stop_event THEN "exited" ELSE "polling"]
    /\ UNCHANGED << lifecycle, handled, ingest, market >>
    /\ UNCHANGED << engineVars, cacheVars, streamVars, busVars >>

\* _listen: poll(timeout=1000) times out, or finds a message that
\* receive_message returns and process_news hands to add_message, or a
\* message that is not a JSON object, on which json.loads or
\* news_data.get raises, or poll or recv raises a ZMQError
listen_poll(i) ==
    /\ listener.threads[i] = "polling"
    /\ \E outcome \in {"timeout", "message", "malformed", "zmq_error"} :
          /\ outcome \in {"message", "malformed"} => listener.fed < MaxFed
          /\ listener' = [listener EXCEPT
                             !.threads[i] = CASE outcome = "timeout" -> "loop"
                                              [] outcome = "message" -> "ingesting"
                                              [] outcome = "malformed" -> AfterException("Exception")
                                              [] OTHER -> AfterException("ZMQError"),
                             !.fed = IF outcome \in {"message", "malformed"} THEN @ + 1 ELSE @,
                             !.errors = IF outcome = "malformed" THEN @ + 1 ELSE @,
                             !.exc = CASE outcome = "malformed" -> "Exception"
                                       [] outcome = "zmq_error" -> "ZMQError"
                                       [] OTHER -> @]
    /\ UNCHANGED << lifecycle, handled, ingest, market >>
    /\ UNCHANGED << engineVars, cacheVars, streamVars, busVars >>

\* process_news returns: add_message returned, or it raised and process_news
\* caught and logged the exception; the loop goes on
listen_ingested(i) ==
    /\ listener.threads[i] = "ingesting"
    /\ \E outcome \in {"returned", "raised"} :
          listener' = [listener EXCEPT
                          !.threads[i] = "loop",
                          !.errors = IF outcome = "raised" THEN @ + 1 ELSE @,
                          !.exc = IF outcome = "raised" THEN "Exception" ELSE @]
    /\ UNCHANGED << lifecycle, handled, ingest, market >>
    /\ UNCHANGED << engineVars, cacheVars, streamVars, busVars >>

ListenerNext ==
    \/ start_listening
    \/ stop_listening
    \/ stop_listening_joined
    \/ \E i \in DOMAIN listener.threads :
          \/ listen_subscribe(i)
          \/ listen_check(i)
          \/ listen_poll(i)
          \/ listen_ingested(i)

(***************************************************************************)
(* BinanceUSDMarginFetcher: the message handlers of the stream tasks.      *)
(***************************************************************************)
BtcUpper == << "B", "T", "C" >>

\* str.lower()
Lower(str) ==
    [i \in DOMAIN str |-> CASE str[i] = "B" -> "b"
                            [] str[i] = "T" -> "t"
                            [] str[i] = "C" -> "c"
                            [] OTHER -> str[i]]

\* the messages stream.recv() returns: the event type under "e" and the
\* symbol under "s", either of which may be absent
EventTypes == {"aggTrade", "depthUpdate", "error", "markPrice", "missing"}
Symbols == {[present |-> TRUE, value |-> BtcUpper], [present |-> TRUE, value |-> Btc],
            [present |-> TRUE, value |-> << >>], [present |-> FALSE, value |-> << >>]}
Messages == [e : EventTypes, s : Symbols]

\* the handler _subscribe_streams gives to the task of a stream: the event
\* type it recognizes and the topic it publishes under
RecognizedType(s) == IF s = "BTCUSDT/aggTrade" THEN "aggTrade" ELSE "depthUpdate"
TypeTopic(s) == IF s = "BTCUSDT/aggTrade" THEN Trade ELSE Depth

\* (a variant that does not look at the event type)
ProcessMessage_unfiltered(recognized, type_topic, msg) ==
    LET symbol == Lower(IF msg.s.present THEN msg.s.value ELSE << >>)
    IN  IF symbol # << >> THEN << ComposeTopic(type_topic, symbol) >> ELSE << >>

\* _process_aggTrade_message / _process_depth_message: the topics of the
\* publish_message calls the handler makes for msg
ProcessMessage(recognized, type_topic, msg) ==
    IF msg.e = "error"
    THEN << >>
    ELSE IF msg.e = recognized
    THEN LET symbol == Lower(IF msg.s.present THEN msg.s.value ELSE << >>)
         IN  IF symbol # << >>
             THEN << ComposeTopic(type_topic, symbol) >>
             ELSE << >>
    ELSE << >>

NoMessage == [e |-> "none", s |-> [present |-> FALSE, value |-> << >>]]

HandledInit == handled = [stream |-> "none", msg |-> NoMessage, published |-> << >>]

\* the inner loop: stream.recv() returns msg and message_handler(msg) handles
\* it; back to "while self._is_running"
handle_message(s) ==
    /\ stream[s].pc = "connected" /\ ~stream[s].cancel
    /\ is_running
    /\ stream[s].msgs + stream[s].errors < MaxReads
    /\ \E msg \in Messages :
          handled' = [stream |-> s, msg |-> msg,
                      published |-> ProcessMessage(RecognizedType(s), TypeTopic(s), msg)]
    /\ stream' = [stream EXCEPT ![s].msgs = @ + 1]
    /\ UNCHANGED << is_running, fetcher, stopper >>
    /\ UNCHANGED << lifecycle, listener, ingest, market >>
    /\ UNCHANGED << engineVars, cacheVars, busVars >>

HandlerNext ==
    \/ start_begin
    \/ start_subscribe
    \/ \E s \in Streams :
          \/ task_begin(s)
          \/ connect_ok(s)
          \/ handle_message(s)

(***************************************************************************)
(* NewsAnalyzer.add_message statement by statement: what is done before    *)
(* and after each collaborator call, and the sample each call is handed.   *)
(***************************************************************************)
\* list[-n:]: the last n elements for n >= 1; -0 is 0, so list[-0:] is the
\* whole list
Recent(list, n) ==
    IF n = 0 \/ n >= Len(list)
    THEN list
    ELSE SubSeq(list, Len(list) - n + 1, Len(list))

\* the messages of the buffer whose message_type is message_type
OfType(m, message_type) == m.message_type = message_type
Filtered(buffer, message_type) ==
    SelectSeq(buffer, LAMBDA m : OfType(m, message_type))

NoIngest(summary_count, volatility_count) ==
    [pc |-> "idle", msg_type |-> "none",
     summary_message_count |-> summary_count,
     volatility_message_count |-> volatility_count,
     sample_for |-> "none", sample |-> << >>]

IngestIdle == ingest = NoIngest(1, 1)

IngestInit ==
    /\ \E summary_count \in 0..MaxSample, volatility_count \in 0..MaxSample :
          ingest = NoIngest(summary_count, volatility_count)

\* add_message up to the category branch: the message is appended and
\* counted; when the category's trigger is due, summarize_recent_messages is
\* called with the recent messages of the category
add_message_begin ==
    /\ ingest.pc = "idle"
    /\ message_count < MaxEvents
    /\ \E msg_type \in MessageTypes :
          LET message_data == [message_type |-> msg_type, id |-> message_count + 1]
              buffer == DequeAppend(message_buffer, message_data, message_buffer_size)
              ch1 == IF CountsAs(msg_type, "channel") THEN channel_message_count + 1
                     ELSE channel_message_count
              gr1 == IF CountsAs(msg_type, "group") THEN group_message_count + 1
                     ELSE group_message_count
              fire == \/ CountsAs(msg_type, "channel")
                         /\ TriggerDue(ch1, last_channel_summary_count, summary_interval_channel)
                      \/ CountsAs(msg_type, "group")
                         /\ TriggerDue(gr1, last_group_summary_count, summary_interval_group)
          IN  /\ message_buffer' = buffer
              /\ message_count' = message_count + 1
              /\ channel_message_count' = ch1
              /\ group_message_count' = gr1
              /\ ingest' = IF fire
                           THEN [ingest EXCEPT
                                    !.pc = "summarizing", !.msg_type = msg_type,
                                    !.sample_for = "category",
                                    !.sample = Recent(Filtered(buffer, msg_type),
                                                      ingest.summary_message_count)]
                           ELSE [ingest EXCEPT
                                    !.pc = "trigger", !.msg_type = msg_type,
                                    !.sample_for = "none", !.sample = << >>]
    /\ UNCHANGED << message_buffer_size, analysis_interval, summary_interval_channel,
                    summary_interval_group, last_analysis_count,
                    last_channel_summary_count, last_group_summary_count, last >>
    /\ UNCHANGED << lifecycle, listener, handled, market >>
    /\ UNCHANGED << cacheVars, streamVars, busVars >>

\* summarize_recent_messages has returned (a text, or None): the summary is
\* logged and the category's baseline is set to the category's count
add_message_summarized ==
    /\ ingest.pc = "summarizing"
    /\ last_channel_summary_count' =
          NextBaseline(ingest.msg_type = "channel", channel_message_count,
                       last_channel_summary_count)
    /\ last_group_summary_count' =
          NextBaseline(ingest.msg_type = "group", group_message_count,
                       last_group_summary_count)
    /\ ingest' = [ingest EXCEPT !.pc = "trigger"]
    /\ UNCHANGED << message_buffer_size, analysis_interval, summary_interval_channel,
                    summary_interval_group, message_buffer, message_count,
                    last_analysis_count, channel_message_count, group_message_count,
                    last >>
    /\ UNCHANGED << lifecycle, listener, handled, market >>
    /\ UNCHANGED << cacheVars, streamVars, busVars >>

\* the analysis trigger: when it is due analyze_messages is called, and
\* analyze_market_volatility is handed the recent messages of the buffer
add_message_trigger ==
    /\ ingest.pc = "trigger"
    /\ ingest' = IF TriggerDue(message_count, last_analysis_count, analysis_interval)
                 THEN [ingest EXCEPT
                          !.pc = "analyzing", !.sample_for = "volatility",
                          !.sample = Recent(message_buffer,
                                            ingest.volatility_message_count)]
                 ELSE [ingest EXCEPT !.pc = "idle"]
    /\ UNCHANGED engineVars
    /\ UNCHANGED << lifecycle, listener, handled, market >>
    /\ UNCHANGED << cacheVars, streamVars, busVars >>

\* analyze_messages has returned or raised; the analysis baseline is set only
\* when it returned
add_message_analyzed ==
    /\ ingest.pc = "analyzing"
    /\ \E response \in Responses :
          LET an == analyze_messages(response, "none", "none", "sent", message_count)
          IN  last_analysis_count' =
                 NextBaseline(~an.raised, message_count, last_analysis_count)
    /\ ingest' = [ingest EXCEPT !.pc = "idle"]
    /\ UNCHANGED << message_buffer_size, analysis_interval, summary_interval_channel,
                    summary_interval_group, message_buffer, message_count,
                    channel_message_count, group_message_count,
                    last_channel_summary_count, last_group_summary_count, last >>
    /\ UNCHANGED << lifecycle, listener, handled, market >>
    /\ UNCHANGED << cacheVars, streamVars, busVars >>

IngestNext ==
    \/ add_message_begin
    \/ add_message_summarized
    \/ add_message_trigger
    \/ add_message_analyzed


(***************************************************************************)
(* MarketDataProcessor: start_listening, stop_listening, the listener      *)
(* thread, and the cache the thread writes to.                             *)
(***************************************************************************)
\* the topics the handlers of the fetcher publish
PublishedTopics ==
    { ComposeTopic(TypeTopic(s), Lower(q)) : s \in Streams, q \in {Btc, BtcUpper} }

\* _listen: topics_to_subscribe, built from the configured symbol as written
Subscriptions(symbol) ==
    << ComposeTopic(Trade, symbol), ComposeTopic(Depth, symbol) >>

\* the cache key of a delivered message, data["data"]["e"]: the handlers
\* publish "aggTrade" events (k1) under the trade topic and "depthUpdate"
\* events (k2) under the depth topic
EventKey(topic) == IF StartsWith(topic, Trade) THEN "k1" ELSE "k2"

NoMarket(symbol) ==
    [symbol |-> symbol, threads |-> << >>, thread |-> 0, stop_event |-> FALSE,
     caller |-> "idle", calls |-> 0, filters |-> << >>]

MarketIdle == market = NoMarket(Btc)

\* SYMBOLS of the configuration, in either letter case
MarketInit == \E symbol \in {Btc, BtcUpper} : market = NoMarket(symbol)

\* start_listening(): clears the stop event and starts a new thread on
\* _listen; it does not look whether a thread is running, and it does not
\* touch the cache, whose monitor thread is started in
\* MonitoredCache.__init__ only
StartMarket(m) ==
    [m EXCEPT !.stop_event = FALSE,
              !.threads = Append(@, "subscribing"),
              !.thread = Len(m.threads) + 1]

market_start_listening ==
    /\ market.caller = "idle"
    /\ market.calls < MaxMarketCalls
    /\ market' = [StartMarket(market) EXCEPT !.calls = @ + 1]
    /\ UNCHANGED cacheVars
    /\ UNCHANGED << lifecycle, listener, handled, ingest >>
    /\ UNCHANGED << engineVars, streamVars, busVars >>

\* stop_listening(): sets the stop event and joins the thread if it is alive
StopMarket(m) ==
    [m EXCEPT !.stop_event = TRUE,
              !.caller = IF IsAlive(m, m.thread) THEN "joining" ELSE "cache_stop"]

market_stop_listening ==
    /\ market.caller = "idle"
    /\ market.calls < MaxMarketCalls
    /\ market' = [StopMarket(market) EXCEPT !.calls = @ + 1]
    /\ UNCHANGED cacheVars
    /\ UNCHANGED << lifecycle, listener, handled, ingest >>
    /\ UNCHANGED << engineVars, streamVars, busVars >>

\* stop_listening(): _thread.join() returns
market_stop_joined ==
    /\ market.caller = "joining"
    /\ ~IsAlive(market, market.thread)
    /\ market' = [market EXCEPT !.caller = "cache_stop"]
    /\ UNCHANGED cacheVars
    /\ UNCHANGED << lifecycle, listener, handled, ingest >>
    /\ UNCHANGED << engineVars, streamVars, busVars >>

\* stop_listening(): self.cache.stop() sets the cache's stop event, then
\* joins the monitor thread
market_cache_stop ==
    /\ market.caller = "cache_stop"
    /\ stop_event' = TRUE
    /\ market' = [market EXCEPT !.caller = "cache_join"]
    /\ UNCHANGED << maxsize, ttl, cache_data, cache_lock, monitor, client, clock, calls >>
    /\ UNCHANGED << lifecycle, listener, handled, ingest >>
    /\ UNCHANGED << engineVars, streamVars, busVars >>

\* stop_listening(): the join of the monitor thread returns, and so does
\* stop_listening
market_stop_returned ==
    /\ market.caller = "cache_join"
    /\ Joined(monitor)
    /\ market' = [market EXCEPT !.caller = "idle"]
    /\ UNCHANGED cacheVars
    /\ UNCHANGED << lifecycle, listener, handled, ingest >>
    /\ UNCHANGED << engineVars, streamVars, busVars >>

\* _listen: the topics are built and get_subscriber returns the subscriber,
\* or raises and ends the thread
market_subscribe(i) ==
    /\ market.threads[i] = "subscribing"
    /\ \E outcome \in {"ok", "error"} :
          market' = [market EXCEPT
                        !.threads[i] = IF outcome = "ok" THEN "loop" ELSE "exited",
                        !.filters = IF outcome = "ok" THEN Subscriptions(market.symbol)
                                    ELSE @]
    /\ UNCHANGED cacheVars
    /\ UNCHANGED << lifecycle, listener, handled, ingest >>
    /\ UNCHANGED << engineVars, streamVars, busVars >>

\* _listen: the loop condition
market_check(i) ==
    /\ market.threads[i] = "loop"
    /\ market' = [market EXCEPT
                     !.threads[i] = IF market.stop_event THEN "exited" ELSE "polling"]
    /\ UNCHANGED cacheVars
    /\ UNCHANGED << lifecycle, listener, handled, ingest >>
    /\ UNCHANGED << engineVars, streamVars, busVars >>

\* _listen: poll(timeout=1000) times out; or the message receive_message
\* reads is not JSON; or poll or recv raises a ZMQError
market_poll(i) ==
    /\ market.threads[i] = "polling"
    /\ \E outcome \in {"timeout", "malformed", "zmq_error"} :
          market' = [market EXCEPT
                        !.threads[i] = CASE outcome = "timeout" -> "loop"
                                         [] outcome = "malformed" -> AfterException("Exception")
                                         [] OTHER -> AfterException("ZMQError")]
    /\ UNCHANGED cacheVars
    /\ UNCHANGED << lifecycle, listener, handled, ingest >>
    /\ UNCHANGED << engineVars, streamVars, busVars >>

\* _listen: poll finds a message and receive_message returns it; its topic is
\* one the fetcher publishes and the subscriber's filters let through, and
\* _process_trade_data or _process_depth_data arrives at
\* self.cache[data["data"]["e"]] = data["data"]
market_receive(i) ==
    /\ market.threads[i] = "polling"
    /\ calls < MaxCalls
    /\ \A t \in Clients : client[t].pc = "idle"
    /\ \E topic \in { p \in PublishedTopics : Matches(market.filters, p) },
          v \in Values, t \in Clients :
             client' = [client EXCEPT ![t] = [pc |-> "set", key |-> EventKey(topic),
                                              value |-> v, returned |-> "none",
                                              ret |-> Absent]]
    /\ calls' = calls + 1
    /\ market' = [market EXCEPT !.threads[i] = "processing"]
    /\ UNCHANGED << maxsize, ttl, cache_data, cache_lock, stop_event, monitor, clock >>
    /\ UNCHANGED << lifecycle, listener, handled, ingest >>
    /\ UNCHANGED << engineVars, streamVars, busVars >>

\* _process_trade_data / _process_depth_data: the write has returned, the
\* message is logged and the loop goes on
market_processed(i) ==
    /\ market.threads[i] = "processing"
    /\ \A t \in Clients : client[t].pc = "idle"
    /\ market' = [market EXCEPT !.threads[i] = "loop"]
    /\ UNCHANGED cacheVars
    /\ UNCHANGED << lifecycle, listener, handled, ingest >>
    /\ UNCHANGED << engineVars, streamVars, busVars >>

MarketNext ==
    \/ market_start_listening
    \/ market_stop_listening
    \/ market_stop_joined
    \/ market_cache_stop
    \/ market_stop_returned
    \/ \E i \in DOMAIN market.threads :
          \/ market_subscribe(i)
          \/ market_check(i)
          \/ market_poll(i)
          \/ market_receive(i)
          \/ market_processed(i)
    \/ \E t \in Clients : setitem(t)
    \/ monitor_check
    \/ monitor_scan
    \/ monitor_delete
    \/ monitor_wake
    \/ Tick

\* the handlers of the fetcher publish while the market-data listener
\* subscribes
TopicNext ==
    \/ HandlerNext
    \/ market_start_listening
    \/ \E i \in DOMAIN market.threads :
          \/ market_subscribe(i)
          \/ market_check(i)

(***************************************************************************)
(* main(): the try block and the finally block, with the threads and the   *)
(* tasks it starts and stops.                                              *)
(***************************************************************************)
busOther == << publishers, sockets, binds, handed, subscribers, frames, bus_calls, bus_last >>

\* news_processor.start_listening() and market_data_processor.start_listening()
main_start_listening ==
    /\ app.pc = "binance"
    /\ app' = [app EXCEPT !.pc = "listening", !.listeners = TRUE]
    /\ listener' = StartListening(listener)
    /\ market' = StartMarket(market)
    /\ UNCHANGED << lifecycle, handled, ingest >>
    /\ UNCHANGED busOther
    /\ UNCHANGED << engineVars, cacheVars, streamVars >>

\* the task of binance_fetcher.start() runs once main has created it
fetcher_start ==
    /\ app.fetchers
    /\ start_begin

fetcher_subscribe ==
    /\ app.fetchers
    /\ start_subscribe

\* gather ends: a shutdown signal, an exception, or the end of the fetcher
\* tasks; every branch goes on to the finally block
main_finally ==
    /\ app.pc = "running"
    /\ app' = [app EXCEPT !.pc = "stop_telegram"]
    /\ UNCHANGED busOther
    /\ UNCHANGED << engineVars, cacheVars, streamVars, moreVars >>

\* where the finally block goes on after a stop step: no statement of the
\* block is inside a try, so an exception leaves main
AfterStop(outcome, next) == IF outcome = "raised" THEN "failed" ELSE next

\* await telegram_fetcher.stop(): client.disconnect() returns or raises
main_stop_telegram ==
    /\ app.pc = "stop_telegram"
    /\ \E outcome \in {"returned", "raised"} :
          app' = [app EXCEPT !.pc = AfterStop(outcome, "stop_binance"),
                             !.stops = IF outcome = "returned"
                                       THEN Append(@, "telegram") ELSE @]
    /\ UNCHANGED busOther
    /\ UNCHANGED << engineVars, cacheVars, streamVars, moreVars >>

\* await binance_fetcher.stop(): the call
main_stop_binance ==
    /\ app.pc = "stop_binance"
    /\ StopCall
    /\ app' = [app EXCEPT !.pc = "in_stop_binance"]
    /\ UNCHANGED busOther
    /\ UNCHANGED << engineVars, cacheVars, moreVars >>

\* binance_fetcher.stop(): client.close_connection() raises
main_binance_raised ==
    /\ app.pc = "in_stop_binance"
    /\ stopper.pc = "closing"
    /\ stopper' = [stopper EXCEPT !.pc = "idle", !.waits = {}]
    /\ app' = [app EXCEPT !.pc = AfterStop("raised", "stop_news")]
    /\ UNCHANGED << is_running, fetcher, stream >>
    /\ UNCHANGED busOther
    /\ UNCHANGED << engineVars, cacheVars, moreVars >>

\* binance_fetcher.stop() has returned
main_binance_stopped ==
    /\ app.pc = "in_stop_binance"
    /\ stopper.pc = "idle"
    /\ app' = [app EXCEPT !.pc = AfterStop("returned", "stop_news"),
                          !.stops = Append(@, "binance")]
    /\ UNCHANGED busOther
    /\ UNCHANGED << engineVars, cacheVars, streamVars, moreVars >>

\* news_processor.stop_listening(): the call
main_stop_news ==
    /\ app.pc = "stop_news"
    /\ listener.caller = "idle"
    /\ listener' = StopListening(listener)
    /\ app' = [app EXCEPT !.pc = "in_stop_news"]
    /\ UNCHANGED << lifecycle, handled, ingest, market >>
    /\ UNCHANGED busOther
    /\ UNCHANGED << engineVars, cacheVars, streamVars >>

\* news_processor.stop_listening() has returned
main_news_stopped ==
    /\ app.pc = "in_stop_news"
    /\ listener.caller = "idle"
    /\ app' = [app EXCEPT !.pc = "stop_market", !.stops = Append(@, "news")]
    /\ UNCHANGED busOther
    /\ UNCHANGED << engineVars, cacheVars, streamVars, moreVars >>

\* market_data_processor.stop_listening(): the call
main_stop_market ==
    /\ app.pc = "stop_market"
    /\ market.caller = "idle"
    /\ market' = StopMarket(market)
    /\ app' = [app EXCEPT !.pc = "in_stop_market"]
    /\ UNCHANGED << lifecycle, listener, handled, ingest >>
    /\ UNCHANGED busOther
    /\ UNCHANGED << engineVars, cacheVars, streamVars >>

\* market_data_processor.stop_listening() has returned
main_market_stopped ==
    /\ app.pc = "in_stop_market"
    /\ market.caller = "idle"
    /\ app' = [app EXCEPT !.pc = "close", !.stops = Append(@, "market")]
    /\ UNCHANGED busOther
    /\ UNCHANGED << engineVars, cacheVars, streamVars, moreVars >>

\* zmq_manager.close(): the call
main_close ==
    /\ app.pc = "close"
    /\ lifecycle.pc \in {"open", "closed"}
    /\ lifecycle' = CloseBegin(lifecycle)
    /\ app' = [app EXCEPT !.pc = "in_close"]
    /\ UNCHANGED << listener, handled, ingest, market >>
    /\ UNCHANGED busOther
    /\ UNCHANGED << engineVars, cacheVars, streamVars >>

\* zmq_manager.close() has returned; main returns
main_closed ==
    /\ app.pc = "in_close"
    /\ lifecycle.pc = "closed"
    /\ app' = [app EXCEPT !.pc = "done"]
    /\ UNCHANGED busOther
    /\ UNCHANGED << engineVars, cacheVars, streamVars, moreVars >>

ShutdownNext ==
    \/ main_telegram
    \/ main_binance
    \/ main_start_listening
    \/ main_fetchers
    \/ fetcher_start
    \/ fetcher_subscribe
    \/ main_finally
    \/ main_stop_telegram
    \/ main_stop_binance
    \/ stop_drained
    \/ stop_closed
    \/ \E s \in Streams : task_cancelled(s)
    \/ main_binance_raised
    \/ main_binance_stopped
    \/ main_stop_news
    \/ stop_listening_joined
    \/ main_news_stopped
    \/ main_stop_market
    \/ market_stop_joined
    \/ market_cache_stop
    \/ market_stop_returned
    \/ main_market_stopped
    \/ main_close
    \/ close_term
    \/ collect
    \/ main_closed
    \/ \E i \in DOMAIN listener.threads :
          \/ listen_subscribe(i)
          \/ listen_check(i)
          \/ listen_poll(i)
          \/ listen_ingested(i)
    \/ \E i \in DOMAIN market.threads :
          \/ market_subscribe(i)
          \/ market_check(i)
          \/ market_poll(i)
    \/ monitor_check
    \/ monitor_scan
    \/ monitor_wake
    \/ Tick

MoreIdle == LifecycleInit /\ ListenerInit /\ HandledInit /\ IngestIdle /\ MarketIdle

EngineSpecInit == EngineInit /\ CacheIdle /\ StreamInit /\ BusInit /\ MoreIdle
EngineSpec == EngineSpecInit /\ [][EngineNext]_vars

CacheSpecInit == CacheInit /\ EngineIdle /\ StreamInit /\ BusInit /\ MoreIdle
CacheSpec == CacheSpecInit /\ [][CacheNext]_vars

\* the listener thread and the cache's monitor thread are both scheduled: a
\* step of either that stays possible is eventually taken
CacheFairness ==
    /\ \A t \in Clients :
          /\ WF_vars(setitem(t))
          /\ WF_vars(get(t))
          /\ WF_vars(delitem(t))
          /\ WF_vars(stop_joined(t))
    /\ WF_vars(monitor_check)
    /\ WF_vars(monitor_scan)
    /\ WF_vars(monitor_delete)
    /\ WF_vars(monitor_wake)
CacheFairSpec == CacheSpec /\ CacheFairness

StreamSpecInit == StreamInit /\ EngineIdle /\ CacheIdle /\ BusInit /\ MoreIdle
StreamSpec == StreamSpecInit /\ [][StreamNext]_vars

BusSpecInit == BusInit /\ EngineIdle /\ CacheIdle /\ StreamInit /\ MoreIdle
BusSpec == BusSpecInit /\ [][BusNext]_vars

ListenerSpecInit == BusInit /\ EngineIdle /\ CacheIdle /\ StreamInit /\ MoreIdle
ListenerSpec == ListenerSpecInit /\ [][ListenerNext]_vars

HandlerSpecInit == StreamInit /\ EngineIdle /\ CacheIdle /\ BusInit /\ MoreIdle
HandlerSpec == HandlerSpecInit /\ [][HandlerNext]_vars

IngestSpecInit ==
    /\ EngineInit /\ IngestInit
    /\ LifecycleInit /\ ListenerInit /\ HandledInit /\ MarketIdle
    /\ CacheIdle /\ StreamInit /\ BusInit
IngestSpec == IngestSpecInit /\ [][IngestNext]_vars

CloseSpecInit == BusInit /\ EngineIdle /\ CacheIdle /\ StreamInit /\ MoreIdle
CloseSpec == CloseSpecInit /\ [][CloseNext]_vars

MarketSpecInit ==
    /\ CacheInit /\ MarketInit
    /\ LifecycleInit /\ ListenerInit /\ HandledInit /\ IngestIdle
    /\ EngineIdle /\ StreamInit /\ BusInit
MarketSpec == MarketSpecInit /\ [][MarketNext]_vars

TopicSpecInit ==
    /\ StreamInit /\ MarketInit
    /\ LifecycleInit /\ ListenerInit /\ HandledInit /\ IngestIdle
    /\ EngineIdle /\ CacheIdle /\ BusInit
TopicSpec == TopicSpecInit /\ [][TopicNext]_vars

ShutdownSpecInit ==
    /\ BusInit /\ CacheIdle /\ StreamInit /\ EngineIdle
    /\ LifecycleInit /\ ListenerInit /\ HandledInit /\ IngestIdle /\ MarketIdle
ShutdownSpec == ShutdownSpecInit /\ [][ShutdownNext]_vars

\* the event loop runs every task that can take a step, and the awaits inside
\* this code (connect, sleep, gather, close_connection) come to an end; how
\* long leaving the socket context takes is up to the connection
StreamFairness ==
    /\ WF_vars(start_subscribe)
    /\ WF_vars(stop_drained)
    /\ WF_vars(stop_closed)
    /\ \A s \in Streams :
          /\ WF_vars(task_cancelled(s))
          /\ WF_vars(task_begin(s))
          /\ WF_vars(connect_ok(s) \/ connect_fail(s))
          /\ WF_vars(sleep_done(s))
StreamFairSpec == StreamSpec /\ StreamFairness



(***************************************************************************)
(*                     Properties of the NewsAnalyzer                      *)
(***************************************************************************)

\* an add_message call has just ended
JustIngested == last.msg_type # "none"

\* the calls of summarize_recent_messages that call made, by who asked
SummariesBy(who) == { i \in DOMAIN last.summaries : last.summaries[i].by = who }

\* every message so far was of category c
OnlyCategory(c) ==
    /\ last.msg_type = c
    /\ message_count = (IF c = "channel" THEN channel_message_count ELSE group_message_count)

IntervalOf(c) == IF c = "channel" THEN summary_interval_channel ELSE summary_interval_group

\* the response breaks the contract of the combined assessment
Malformed(r) == r.kind = "non_json" \/ (r.kind = "json" /\ r.value \notin ValidObjects)

\* C1 as stated: on a fresh engine fed only events of category C, none of the
\* first I-1 add_message calls invokes summarize_recent_messages and the I-th
\* invokes it exactly once, whatever the other two intervals are.  (The total
\* after k calls is the sum over the calls; every prefix is a reachable state.)
C1_Original ==
    \A c \in {"channel", "group"} :
        OnlyCategory(c) =>
            /\ message_count < IntervalOf(c) => Len(last.summaries) = 0
            /\ message_count = IntervalOf(c) => Len(last.summaries) = 1

\* C1 amended: on a fresh engine fed only events of category C, the category
\* trigger invokes summarize_recent_messages in none of the first I-1 calls and
\* exactly once in the I-th, whatever the other intervals are; these are all
\* the invocations when the combined-assessment interval exceeds I, and
\* otherwise every combined assessment that returns a non-empty parsed value
\* adds exactly two.
C1_CategoryTriggerAtInterval ==
    \A c \in {"channel", "group"} :
        OnlyCategory(c) /\ message_count <= IntervalOf(c) =>
            /\ Cardinality(SummariesBy("category"))
                   = (IF message_count = IntervalOf(c) THEN 1 ELSE 0)
            /\ analysis_interval > IntervalOf(c)
                   => Len(last.summaries) = (IF message_count = IntervalOf(c) THEN 1 ELSE 0)
            /\ Cardinality(SummariesBy("analysis"))
                   = (IF /\ last.analysis_fired
                         /\ last.response.kind = "json"
                         /\ last.response.value.type \in {"object", "non_object"}
                      THEN 2 ELSE 0)

\* the I-th event of a category has been ingested, I > 1, and its trigger fired
C1_Witness ==
    /\ OnlyCategory("channel")
    /\ summary_interval_channel = 2 /\ message_count = 2
    /\ last.category_fired /\ Len(last.summaries) = 1

\* one category's counter, baseline, interval
CountOf(c) == IF c = "channel" THEN channel_message_count ELSE group_message_count
BaselineOf(c) == IF c = "channel" THEN last_channel_summary_count ELSE last_group_summary_count

\* C2: on every ingest of an event of a category the category trigger fires
\* iff, after the increment, count - baseline >= interval; when it fires the
\* baseline becomes the count (so the same crossing cannot fire again); at
\* most one category-triggered summary is made per ingest; the counts never
\* decrease.
C2_TriggerStep ==
    \A c \in {"channel", "group"} :
        /\ CountOf(c)' >= CountOf(c)
        /\ (last.msg_type = "none" /\ last'.msg_type = c) =>
              LET fired == \E i \in DOMAIN last'.summaries :
                              /\ last'.summaries[i].by = "category"
                              /\ last'.summaries[i].message_type = c
              IN  /\ CountOf(c)' = CountOf(c) + 1
                  /\ fired <=> (CountOf(c)' - BaselineOf(c) >= IntervalOf(c))
                  /\ fired => BaselineOf(c)' = CountOf(c)'
                  /\ ~fired => BaselineOf(c)' = BaselineOf(c)
                  /\ Cardinality({ i \in DOMAIN last'.summaries :
                                      last'.summaries[i].by = "category" }) <= 1
        /\ (last'.msg_type \notin {"none", c}) =>
              /\ CountOf(c)' = CountOf(c)
              /\ BaselineOf(c)' = BaselineOf(c)

C2_TriggerIffDue ==
    /\ [](\A c \in {"channel", "group"} :
            /\ 0 <= BaselineOf(c) /\ BaselineOf(c) <= CountOf(c)
            /\ CountOf(c) - BaselineOf(c) < IntervalOf(c))
    /\ [][C2_TriggerStep]_vars

\* a category trigger has fired for the second time
C2_Witness ==
    /\ last.msg_type = "channel" /\ last.category_fired
    /\ channel_message_count = 2 * summary_interval_channel
    /\ last_channel_summary_count = channel_message_count

\* the report send_markdown_email is given for a response, with the summaries
\* analyze_messages obtained in the same call
ExpectedReport(r, summaries) ==
    LET got(t) == CHOOSE i \in DOMAIN summaries :
                      summaries[i].by = "analysis" /\ summaries[i].message_type = t
        shown(t) == IF summaries[got(t)].result = NoSummary
                    THEN << "no summary" >> ELSE summaries[got(t)].result
    IN  [volatility_status |-> r.value.vol = "true",
         activity_status |-> r.value.act = "true",
         confidence |-> r.value.conf,
         hot_topics |-> r.value.topics,
         summary |-> r.value.summary,
         channel_summary |-> shown("channel"),
         group_summary |-> shown("group")]

ReportOf(alert) ==
    [f \in {"volatility_status", "activity_status", "confidence", "hot_topics",
             "summary", "channel_summary", "group_summary"} |-> alert[f]]

\* C3: when the global trigger fires and the response is valid with one of
\* the two signals true, send_markdown_email is called exactly once in that
\* ingest, with a report that carries the two signals, the confidence, the
\* topics, the rationale and the channel and group summaries made in that call.
C3_AlertOnceWithReport ==
    ( /\ JustIngested /\ last.analysis_fired
      /\ IsValidResponse(last.response)
      /\ (last.response.value.vol = "true" \/ last.response.value.act = "true") )
    => /\ Len(last.alerts) = 1
       /\ Cardinality(SummariesBy("analysis")) = 2
       /\ ReportOf(last.alerts[1]) = ExpectedReport(last.response, last.summaries)
       /\ ~last.raised

\* only the activity signal is true, and the alert carries one summary text
\* and one placeholder
C3_Witness ==
    /\ JustIngested /\ last.analysis_fired /\ IsValidResponse(last.response)
    /\ last.response.value.vol = "false" /\ last.response.value.act = "true"
    /\ Len(last.alerts) = 1
    /\ last.alerts[1].channel_summary = SummaryText("channel", message_count)
    /\ last.alerts[1].group_summary = << "no summary" >>

\* C4 as stated: a response that is not JSON, or JSON that breaks the schema,
\* is discarded: no alert is sent for that trigger.
C4_MalformedDiscarded ==
    (JustIngested /\ last.analysis_fired /\ Malformed(last.response))
        => last.alerts = << >>

\* C5 as stated: after a failed or malformed combined assessment add_message
\* returns without raising and the global baseline equals the global count.
C5_MalformedAdvancesBaseline ==
    ( /\ JustIngested /\ last.analysis_fired
      /\ (last.response.kind = "api_fail" \/ Malformed(last.response)) )
    => /\ ~last.raised
       /\ last_analysis_count = message_count

\* the event just written into the buffer
C6_Stored ==
    [message_type |-> last'.msg_type, id |-> message_count']

C6_BufferStep ==
    (last.msg_type = "none" /\ last'.msg_type # "none") =>
        LET all == Append(message_buffer, C6_Stored)
            keep == Min(message_buffer_size, Len(all))
        IN  message_buffer' = SubSeq(all, Len(all) - keep + 1, Len(all))

\* C6: the buffer never holds more than its capacity N; after n ingests it
\* holds min(N, n) events, which are the most recently ingested ones (the
\* events numbered n-min(N,n)+1 .. n) in arrival order, each stored as ingested.
C6_RingBuffer ==
    /\ [](/\ Len(message_buffer) <= message_buffer_size
          /\ Len(message_buffer) = Min(message_buffer_size, message_count)
          /\ \A i \in DOMAIN message_buffer :
                message_buffer[i].id = message_count - Len(message_buffer) + i)
    /\ [][C6_BufferStep]_vars

\* more events than the capacity have been ingested
C6_Witness ==
    /\ message_buffer_size = 2 /\ message_count = 3
    /\ Len(message_buffer) = 2
    /\ message_buffer[1].id = 2 /\ message_buffer[2].id = 3

(***************************************************************************)
(*                    Properties of the MonitoredCache                     *)
(***************************************************************************)

\* C7 as stated: every call of set completes, and when it has completed the
\* cache holds at most maxsize entries.
C7_SetCompletesWithinCapacity ==
    \A t \in Clients :
        (client[t].pc = "set") ~>
            (/\ client[t].pc = "idle" /\ client[t].returned = "set"
             /\ Len(cache_data) <= maxsize)

\* C8 as stated: no cache operation waits for the lock while holding it.
C8_NoNestedAcquire ==
    \A t \in Clients : ~(client[t].pc = "evict" /\ cache_lock = t)

\* C9, the sweep: when a pass of _monitor_expiry is complete, no entry is
\* left whose last set lies more than ttl before the time the pass started with
C9_PassLeavesNoneExpired ==
    monitor.pc = "sleep" =>
        \A i \in DOMAIN cache_data : ~(monitor.now - cache_data[i].ts > ttl)

\* C9, from then on: an absent key becomes present only by a set of that
\* key, and a get of an absent key returns the absent marker
C9_AbsentUntilSet ==
    /\ \A k \in Keys :
          (~HasKey(cache_data, k) /\ HasKey(cache_data', k))
              => \E t \in Clients : client[t].pc = "set" /\ client[t].key = k
    /\ \A t \in Clients :
          (client[t].pc = "get" /\ client'[t].pc = "idle")
              => client'[t].ret =
                    (IF client[t].key \in KeysOf(cache_data)
                     THEN cache_data[IndexOf(cache_data, client[t].key)].value
                     ELSE Absent)

\* C9: for a cache that has not been stopped, an entry whose last set lies
\* more than ttl in the past when a sweep pass starts is gone when that pass
\* is complete, and get of its key returns the absent marker until the key is
\* set again.
C9_ExpiredRemovedBySweep ==
    /\ [](C9_PassLeavesNoneExpired)
    /\ [][C9_AbsentUntilSet]_vars

\* a complete pass removed an entry and a later get of its key found it absent
C9_Witness ==
    \E t \in Clients :
        /\ monitor.pc = "sleep" /\ ~stop_event
        /\ client[t].returned = "get" /\ client[t].ret = Absent
        /\ client[t].key \in monitor.removed

(***************************************************************************)
(*                    Properties of the stream tasks                       *)
(***************************************************************************)

\* 2^k, by repeated doubling
RECURSIVE Doubled(_)
Doubled(k) == IF k = 0 THEN 1 ELSE 2 * Doubled(k - 1)

\* C10: while a stream's connection attempts keep failing, the delay waited
\* before the n-th reconnect attempt is min(base * 2^(n-1), max_delay), for
\* n = 1..max_attempts: with 5, 60 and 5 that is 5, 10, 20, 40, 60.
C10_BackoffDelays ==
    \A s \in Streams :
        LET d == stream[s].delays
        IN  /\ Len(d) <= 5
            /\ d = SubSeq(<< 5, 10, 20, 40, 60 >>, 1, Len(d))
            /\ \A n \in DOMAIN d :
                  d[n] = (IF 5 * Doubled(n - 1) <= 60 THEN 5 * Doubled(n - 1) ELSE 60)
            /\ stream[s].pc = "sleeping" =>
                  /\ Len(d) = stream[s].reconnect_attempts
                  /\ stream[s].delay = d[Len(d)]

\* a stream is waiting before its fifth reconnect attempt
C10_Witness ==
    \E s \in Streams :
        /\ stream[s].pc = "sleeping"
        /\ stream[s].reconnect_attempts = 5
        /\ stream[s].delays = << 5, 10, 20, 40, 60 >>

\* a stream task has given up: its counter went past the maximum
GaveUp(s) == stream[s].reconnect_attempts > MAX_RECONNECT_ATTEMPTS

\* C11, the state: a stream whose counter exceeds the maximum has ended, after
\* max_attempts + 1 failed connection attempts at most; no stream ever makes
\* more connection attempts in a row than that.
C11_GivenUpIsStopped ==
    \A s \in Streams :
        /\ stream[s].tries <= 5 + 1
        /\ GaveUp(s) => /\ stream[s].pc = "exited"
                        /\ stream[s].why = "gave_up"
                        /\ stream[s].tries = 5 + 1

\* C11, the steps: a stream that has given up takes no further step
C11_StaysStopped ==
    \A s \in Streams : GaveUp(s) => stream'[s] = stream[s]

\* C11: once a stream's reconnect-attempt counter exceeds max_attempts the
\* stream is stopped and never issues another connection attempt; a stream
\* whose every attempt fails makes a bounded number of attempts (6) and then
\* stays stopped for ever.
C11_GiveUpIsFinal ==
    /\ [](C11_GivenUpIsStopped)
    /\ [][C11_StaysStopped]_vars

\* one stream has given up and the other one has gone on since (it is connected)
C11_Witness ==
    \E s \in Streams, o \in Streams :
        /\ GaveUp(s) /\ stream[s].pc = "exited"
        /\ stream[o].pc = "connected"

\* C12 as stated: a read that raises while the stream is connected moves the
\* stream to the backoff wait and counts toward max_attempts.
C12_ReadErrorReconnects ==
    [][\A s \in Streams :
          stream'[s].errors > stream[s].errors
              => /\ stream'[s].pc = "sleeping"
                 /\ stream'[s].reconnect_attempts = stream[s].reconnect_attempts + 1]_vars

\* stream s fails (a failed connection or a failed read), is cancelled or gives
\* up in this step
C13_Fails(s) ==
    \/ stream[s].pc = "connecting" /\ stream'[s].pc \in {"sleeping", "exited"}
    \/ stream'[s].errors > stream[s].errors
    \/ stream'[s].pc # stream[s].pc /\ stream'[s].pc \in {"closing", "exited"}

\* C13: the stream tasks are separate tasks: in a step in which one stream
\* fails, is cancelled or gives up (stop() aside, which cancels them all), every
\* other stream's task is exactly where it was, reconnect-attempt counter
\* included, the running flag is unchanged and start() still waits for them.
C13_StreamsIndependent ==
    [][\A s \in Streams :
          C13_Fails(s)
              => \A o \in Streams \ {s} :
                    /\ stream'[o] = stream[o]
                    /\ is_running' = is_running
                    /\ fetcher' = fetcher]_vars

\* one stream has given up while the other, connected, has received a message
\* after that and its counter is 0
C13_Witness ==
    \E s \in Streams, o \in Streams :
        /\ stream[s].why = "gave_up"
        /\ stream[o].pc = "connected" /\ stream[o].msgs > 0
        /\ stream[o].reconnect_attempts = 0
        /\ is_running

\* stream s attempts a connection, or reads from its connection, in this step
C14_Works(s) ==
    \/ stream'[s].tries > stream[s].tries
    \/ stream'[s].msgs > stream[s].msgs
    \/ stream'[s].errors > stream[s].errors
    \/ stream'[s].pc \in {"connecting", "connected", "sleeping"} /\ stream'[s].pc # stream[s].pc

\* C14: stop() may be called any number of times, before start(), while
\* start() is initializing and afterwards; once a call of stop() has returned
\* (start() having been called before that), no stream task connects, consumes
\* or publishes any more.
C14_NoWorkAfterStop ==
    [][stopper.sealed => \A s \in Streams : ~C14_Works(s)]_vars

\* stop() was called before start() and again while start() was initializing;
\* both calls have returned, and the tasks start() created afterwards have ended
\* without a connection attempt
C14_Witness ==
    /\ stopper.sealed /\ stopper.returned = 2
    /\ fetcher = "gathering"
    /\ \A s \in Streams : stream[s].pc = "exited" /\ stream[s].why = "stopped"
                          /\ stream[s].tries = 0

\* C15 as stated: every call of stop() returns, also when a cancelled stream
\* task does not come to an end.
C15_StopReturns ==
    (stopper.pc = "draining") ~> (stopper.pc = "idle")

(***************************************************************************)
(*                  Properties of the ZMQManager and main                  *)
(***************************************************************************)

\* this step is a publish_message call that put a frame on the wire
Published == bus_calls' > bus_calls /\ bus_last'.op = "publish_message" /\ bus_last'.sent

\* topic begins with the characters of filter
HasPrefix(topic, filter) ==
    /\ Len(filter) <= Len(topic)
    /\ \A j \in 1..Len(filter) : topic[j] = filter[j]

\* C16, the steps: a published message reaches a subscriber connected to its
\* address exactly if its topic starts with one of the subscriber's filters
C16_DeliveredIffPrefix ==
    Published =>
        \A i \in DOMAIN subscribers :
            subscribers[i].address = bus_last'.address =>
                ((subscribers'[i].inbox # subscribers[i].inbox)
                    <=> \E k \in DOMAIN subscribers[i].filters :
                           HasPrefix(bus_last'.topic, subscribers[i].filters[k]))

\* C16, the state: whatever a subscriber has queued or received starts with one
\* of its filters
C16_OnlyMatching ==
    \A i \in DOMAIN subscribers :
        /\ \A n \in DOMAIN subscribers[i].inbox :
              \E k \in DOMAIN subscribers[i].filters :
                  HasPrefix(subscribers[i].inbox[n][1], subscribers[i].filters[k])
        /\ \A n \in DOMAIN subscribers[i].got :
              \E k \in DOMAIN subscribers[i].filters :
                  HasPrefix(subscribers[i].got[n][1], subscribers[i].filters[k])

\* C16: a published message with topic t is delivered to a subscriber if and
\* only if t starts with at least one of the subscriber's filter strings; a
\* subscriber whose only filter is the base topic gets every "{base}.{qualifier}".
C16_PrefixDelivery ==
    /\ [](C16_OnlyMatching)
    /\ [][C16_DeliveredIffPrefix]_vars

\* a subscriber whose only filter is the base topic has received a message
\* published under "{base}.{qualifier}"
C16_Witness ==
    \E i \in DOMAIN subscribers, q \in Qualifiers :
        /\ subscribers[i].filters = << Trade >>
        /\ subscribers[i].got = << << ComposeTopic(Trade, q), "dict" >> >>

\* the subscriber holds the filters "trade" and "trade.btc"
HoldsBoth(sub) ==
    /\ \E k \in DOMAIN sub.filters : sub.filters[k] = Trade
    /\ \E k \in DOMAIN sub.filters : sub.filters[k] = ComposeTopic(Trade, Btc)

\* C17 as stated: a message with topic "trade.btc" published once is delivered
\* twice to a subscriber that holds both filters "trade" and "trade.btc".
C17_Original ==
    [][(Published /\ bus_last'.topic = ComposeTopic(Trade, Btc)) =>
          \A i \in DOMAIN subscribers :
              (subscribers[i].address = bus_last'.address /\ HoldsBoth(subscribers[i]))
                  => Len(subscribers'[i].inbox) = Len(subscribers[i].inbox) + 2]_vars

\* C17, amended: a message with topic "trade.btc" published once is delivered
\* exactly once to a subscriber that holds both filters "trade" and "trade.btc".
C17_DeliveredOnce ==
    [][(Published /\ bus_last'.topic = ComposeTopic(Trade, Btc)) =>
          \A i \in DOMAIN subscribers :
              (subscribers[i].address = bus_last'.address /\ HoldsBoth(subscribers[i]))
                  => subscribers'[i].inbox =
                         Append(subscribers[i].inbox,
                                << bus_last'.topic, Dumps(bus_last'.payload) >>)]_vars

\* one message with topic "trade.btc" was sent, and the subscriber holding both
\* filters has received it and has nothing more queued
C17_Witness ==
    \E i \in DOMAIN subscribers :
        /\ HoldsBoth(subscribers[i])
        /\ frames = << << ComposeTopic(Trade, Btc), Dumps("dict") >> >>
        /\ subscribers[i].got = << << ComposeTopic(Trade, Btc), "dict" >> >>
        /\ subscribers[i].inbox = << >>

\* C18: get_publisher is idempotent: all successful calls for an address have
\* returned one and the same handle, the one registered, and exactly one bind
\* was performed for that address.
C18_GetPublisherIdempotent ==
    \A a \in Addresses :
        /\ Cardinality(handed[a]) <= 1
        /\ binds[a] <= 1
        /\ handed[a] # {} => /\ handed[a] = {publishers[a]}
                             /\ binds[a] = 1

\* get_publisher has returned for the same address twice (once to main, once
\* to another caller) with a single socket created
C18_Witness ==
    /\ app.pc = "telegram" /\ bus_calls = 1 /\ sockets = 1
    /\ bus_last.op = "get_publisher" /\ bus_last.address = "news"
    /\ ~bus_last.raised
    /\ binds["news"] = 1

\* C19, the steps: a get_publisher call whose bind fails raises and leaves no
\* handle registered for the address; main, once ended by it, stays ended
C19_FailedBindRaises ==
    /\ ((bus_calls' > bus_calls \/ app' # app)
           /\ bus_last'.op = "get_publisher" /\ bus_last'.bind_failed)
          => /\ bus_last'.raised
             /\ publishers' = publishers
             /\ publishers'[bus_last'.address] = 0
    /\ app.pc = "crashed" => app' = app

\* C19: when binding fails in get_publisher the error propagates to the
\* caller, no handle is registered for the address, and main, whose fetcher
\* constructor made the call, starts no listener and no fetcher.
C19_BindFailureIsFatal ==
    /\ [](app.bind_failed => (app.pc = "crashed" /\ ~app.listeners /\ ~app.fetchers))
    /\ [][C19_FailedBindRaises]_vars

\* the bind of the market-data publisher failed in BinanceUSDMarginFetcher's
\* constructor after the news publisher had been bound
C19_Witness ==
    /\ app.pc = "crashed" /\ app.bind_failed
    /\ publishers["news"] # 0
    /\ publishers["market"] = 0
    /\ bus_last.raised

\* C20, the steps: a publish_message call returns; a payload that cannot be
\* serialized puts no frame on the wire and reaches no subscriber; a payload
\* that can, on a send that succeeds, puts its frame on the wire whatever
\* happened to earlier messages
C20_PublishStep ==
    (bus_calls' > bus_calls /\ bus_last'.op = "publish_message") =>
        /\ ~bus_last'.raised
        /\ ~Serializable(bus_last'.payload)
              => (frames' = frames /\ subscribers' = subscribers /\ ~bus_last'.sent)
        /\ bus_last'.sent
              => frames' = Append(frames, << bus_last'.topic, Dumps(bus_last'.payload) >>)

\* C20: publish never raises; a payload that cannot be serialized sends no
\* frame, then or later, and later publish calls on the handle work as before.
C20_PublishNeverRaises ==
    /\ [](\A n \in DOMAIN frames : Serializable(Loads(frames[n][2])))
    /\ [][C20_PublishStep]_vars

\* after a publish whose payload could not be serialized, a later publish on
\* the same handle has sent its frame, the only one on the wire
C20_Witness ==
    /\ bus_last.op = "publish_message" /\ bus_last.sent
    /\ bus_last.drops > 0
    /\ Len(frames) = 1

(***************************************************************************)
(*                     Properties of ZMQManager.close                      *)
(***************************************************************************)
\* C21: once close() has closed the handles, every socket created so far is
\* released, also after a get_publisher or get_subscriber that failed, so
\* that context.term() has nothing to wait for and close() completes.
C21_CloseReleasesEverything ==
    lifecycle.pc \in {"term", "closed"} => OpenSockets = 0

(***************************************************************************)
(*          Properties of the NewsAnalyzer: collaborators that fail        *)
(***************************************************************************)
\* the call just reported asked for the summary of its own category and got
\* None (the API call failed, or returned no text)
NullCategorySummary(c) ==
    /\ last.msg_type = c
    /\ \E i \in SummariesBy("category") :
          /\ last.summaries[i].message_type = c
          /\ last.summaries[i].result = NoSummary

\* C22, the step: an event of category c triggers the category summary exactly
\* when its count is the baseline plus the interval
C22_NextTriggerStep ==
    \A c \in {"channel", "group"} :
        (last.msg_type = "none" /\ last'.msg_type = c) =>
            (last'.category_fired <=> CountOf(c)' = BaselineOf(c) + IntervalOf(c))

C23_DispatchFailureContained ==
    (JustIngested /\ \E i \in DOMAIN last.alerts :
                        last.alerts[i].outcome \in {"failed", "raised"}) =>
        /\ ~last.raised
        /\ Len(last.alerts) = 1
        /\ last_analysis_count = message_count

\* the dispatcher raised
C23_Witness ==
    /\ JustIngested
    /\ Len(last.alerts) = 1
    /\ last.alerts[1].outcome = "raised"

(***************************************************************************)
(*                     Properties of the NewsProcessor                     *)
(***************************************************************************)
\* the listener threads that are alive, and those inside process_news
AliveListeners == { i \in DOMAIN listener.threads : IsAlive(listener, i) }
Ingesting == { i \in DOMAIN listener.threads : listener.threads[i] = "ingesting" }

\* C24: whatever start_listening and stop_listening calls were made, at most
\* one listener thread is alive, so at most one thread is inside add_message
\* at a time, and the thread that is alive is the one _thread refers to.
C24_OneListener ==
    /\ Cardinality(AliveListeners) <= 1
    /\ Cardinality(Ingesting) <= 1
    /\ \A i \in AliveListeners : listener.thread = i

\* a second thread, started after the first was stopped, is inside add_message
C24_Witness ==
    /\ Len(listener.threads) = 2
    /\ listener.threads[1] = "exited"
    /\ listener.threads[2] = "ingesting"
    /\ listener.fed = 2

(***************************************************************************)
(*                  Properties of the message handlers                     *)
(***************************************************************************)
\* the message handled last is of the type its stream recognizes and carries
\* a symbol that is not empty
Publishable ==
    /\ handled.stream # "none"
    /\ handled.msg.e = RecognizedType(handled.stream)
    /\ handled.msg.s.present /\ handled.msg.s.value # << >>

\* C25 as stated: a recognized message with a symbol is published exactly once
\* under the type topic, a dot and the symbol the message carries.
C25_Original ==
    Publishable =>
        handled.published
            = << ComposeTopic(TypeTopic(handled.stream), handled.msg.s.value) >>

\* C25, the step: handling a message leaves the stream connected
C25_HandleStep ==
    \A s \in Streams :
        (stream'[s].msgs > stream[s].msgs) => stream'[s].pc = "connected"

\* C25 amended: a recognized message with a symbol is published exactly once,
\* under the type topic, a dot and the symbol in lower case; any other message
\* (another type, the error marker, no symbol) is not published; the stream
\* stays connected either way.
C25_PublishedOnceLowerCase ==
    /\ [](handled.stream # "none" =>
             handled.published
                = (IF Publishable
                   THEN << ComposeTopic(TypeTopic(handled.stream),
                                        Lower(handled.msg.s.value)) >>
                   ELSE << >>))
    /\ [][C25_HandleStep]_vars

\* an aggTrade message for BTC was published under trade.btc
C25_Witness ==
    /\ handled.stream = "BTCUSDT/aggTrade"
    /\ handled.msg.e = "aggTrade"
    /\ handled.msg.s.value = BtcUpper
    /\ handled.published = << ComposeTopic(Trade, Btc) >>
    /\ stream["BTCUSDT/aggTrade"].pc = "connected"

(***************************************************************************)
(*                   Properties of MonitoredCache.stop                     *)
(***************************************************************************)
\* stop() was called and has returned
StopReturned == stop_event /\ \A t \in Clients : client[t].pc # "join"

\* C26, the step: once stop() has returned the monitor thread takes no step,
\* and a key leaves the cache only together with a step of a client
C26_NoSweepStep ==
    StopReturned =>
        /\ monitor' = monitor
        /\ KeysOf(cache_data') # KeysOf(cache_data) => client' # client

\* C26: a caller waiting in stop() has set the stop event; stop() has returned
\* only when the monitor thread has ended; afterwards the monitor thread
\* removes nothing.
C26_StopJoinsSweep ==
    /\ [](\A t \in Clients : client[t].pc = "join" => stop_event)
    /\ [](StopReturned => monitor.pc = "exited")
    /\ [][C26_NoSweepStep]_vars

\* stop() has returned and an entry whose TTL is over is still in the cache
C26_Witness ==
    /\ StopReturned
    /\ monitor.pc = "exited"
    /\ ExpiredKeys(cache_data, clock, ttl) # << >>

(***************************************************************************)
(*        Properties of add_message around its collaborator calls          *)
(***************************************************************************)
\* C27: while the category-triggered summarize_recent_messages call is in
\* progress (and so also if it ends by raising), the baseline has already been
\* set to the count: the category's trigger condition is false.
C27_BaselineSetBeforeCall ==
    \A c \in {"channel", "group"} :
        (ingest.pc = "summarizing" /\ ingest.msg_type = c) =>
            /\ BaselineOf(c) = CountOf(c)
            /\ ~TriggerDue(CountOf(c), BaselineOf(c), IntervalOf(c))

\* list is the last elements of from, in the order of from
IsSuffix(list, from) ==
    /\ Len(list) <= Len(from)
    /\ \A i \in DOMAIN list : list[i] = from[Len(from) - Len(list) + i]

\* C29: the list handed to the category-triggered summary is the most recent
\* messages of that category in the buffer, in arrival order, at most
\* summary_message_count of them; the list handed to the volatility analysis is
\* the most recent messages of the buffer, at most volatility_message_count.
C29_SampleWithinSize ==
    /\ ingest.sample_for = "category" =>
          /\ IsSuffix(ingest.sample, Filtered(message_buffer, ingest.msg_type))
          /\ Len(ingest.sample) <= ingest.summary_message_count
    /\ ingest.sample_for = "volatility" =>
          /\ IsSuffix(ingest.sample, message_buffer)
          /\ Len(ingest.sample) <= ingest.volatility_message_count

(***************************************************************************)
(*        Properties of the NewsAnalyzer: the combined assessment          *)
(***************************************************************************)
\* C28: the analysis asks for the per-category summaries only when the valid
\* response has a signal that is true; when both signals are false it asks for
\* no summary and sends no alert.
C28_SummariesOnlyOnSignal ==
    (JustIngested /\ last.analysis_fired) =>
        /\ SummariesBy("analysis") # {}
              => (IsValidResponse(last.response) /\ SignalRaised(last.response.value))
        /\ (IsValidResponse(last.response) /\ ~SignalRaised(last.response.value))
              => (SummariesBy("analysis") = {} /\ last.alerts = << >>)

(***************************************************************************)
(*              Properties of the NewsAnalyzer: every ingest               *)
(***************************************************************************)
\* how often the message with this id is in the buffer
TimesBuffered(buffer, id) == Cardinality({ i \in DOMAIN buffer : buffer[i].id = id })

\* C30, the step: an add_message call, whatever the type of its message
C30_IngestStep ==
    (last.msg_type = "none" /\ last'.msg_type # "none") =>
        /\ message_count' = message_count + 1
        /\ message_buffer'[Len(message_buffer')]
              = [message_type |-> last'.msg_type, id |-> message_count']
        /\ TimesBuffered(message_buffer', message_count') = 1
        /\ last'.analysis_fired
              <=> TriggerDue(message_count', last_analysis_count, analysis_interval)
        /\ last'.msg_type = "unknown" =>
              /\ channel_message_count' = channel_message_count
              /\ group_message_count' = group_message_count
              /\ ~last'.category_fired

\* C30: every add_message call appends its message once and adds one to
\* message_count; the analysis trigger is evaluated in every call, whether or
\* not the category trigger fired in it; a message that is neither a channel
\* nor a group message adds to no category count.
C30_EveryIngestCounted ==
    /\ [](channel_message_count + group_message_count <= message_count)
    /\ [][C30_IngestStep]_vars

\* after a message of no known type, a channel message fires the category
\* trigger and the analysis trigger in the same call
C30_Witness ==
    /\ last.msg_type = "channel"
    /\ last.category_fired /\ last.analysis_fired
    /\ message_count > channel_message_count + group_message_count

(***************************************************************************)
(*          Properties of the stream tasks: the attempt counter            *)
(***************************************************************************)
\* C31: the attempt counter of a stream goes down only after a connection
\* that lasted (the stream is connected and has read a message); a connection
\* that is lost at once leaves the attempts counted so far in place, so that
\* a stream that keeps connecting and losing the connection gives up.
C31_ResetOnlyWhenSustained ==
    [][\A s \in Streams :
          stream'[s].reconnect_attempts < stream[s].reconnect_attempts
              => (stream[s].pc = "connected" /\ stream[s].msgs > 0)]_vars

\* C32, the step: a failure of a stream that is connected
C32_FailureStep ==
    \A s \in Streams :
        (stream[s].pc = "connected" /\ stream'[s].errors > stream[s].errors) =>
            /\ stream'[s].pc = "sleeping"
            /\ stream'[s].delay = RECONNECT_DELAY
            /\ stream'[s].reconnect_attempts = 1

\* C32: a connected stream has an attempt counter of zero, and the first
\* failure after it is answered with a wait of RECONNECT_DELAY, as the first
\* of MAX_RECONNECT_ATTEMPTS attempts.
C32_FreshBudgetAfterConnected ==
    /\ [](\A s \in Streams : stream[s].pc = "connected" => stream[s].reconnect_attempts = 0)
    /\ [][C32_FailureStep]_vars

(***************************************************************************)
(*         Properties of the MonitoredCache: eviction and the sweep        *)
(***************************************************************************)
\* C33: a set that makes the map exceed maxsize evicts one entry, the one with
\* the oldest timestamp: once __setitem__ has chosen the oldest key the key is
\* removed, the set returns and the map is back at maxsize.
C33_OverCapacityEvictsOldest ==
    \A t \in Clients :
        (client[t].pc = "evict") ~>
            (/\ client[t].pc = "idle" /\ client[t].returned = "set"
             /\ ~HasKey(cache_data, client[t].key)
             /\ Len(cache_data) = maxsize)

\* C35: when the monitor thread removes an entry, the entry's age at that
\* moment exceeds ttl; an entry that was set again after the scan stays.
C35_SweepRemovesOnlyExpired ==
    [][\A i \in DOMAIN cache_data :
          (monitor.pc = "delete" /\ monitor' # monitor
              /\ ~HasKey(cache_data', cache_data[i].key))
          => Expired(clock, cache_data[i].ts, ttl)]_vars

\* C38, the step: __setitem__ from taking the lock
C38_SetStep ==
    \A t \in Clients :
        (client[t].pc = "set" /\ client'[t].pc # "set") =>
            /\ Lookup(cache_data', client[t].key) = client[t].value
            /\ client'[t].pc = "evict" => client'[t].key # client[t].key
            /\ \A k \in Keys \ {client[t].key} :
                  Lookup(cache_data', k) = Lookup(cache_data, k)

\* C38, the step: a get returns what the map holds for the key
C38_GetStep ==
    \A t \in Clients :
        (client[t].pc = "get" /\ client'[t].pc = "idle") =>
            client'[t].ret = Lookup(cache_data, client[t].key)

\* C38: when __setitem__(k, v) is through, the map holds v for k, whether k is
\* new or was there with another value, and the key chosen for eviction is
\* never k; a get that follows returns what the map holds.
C38_GetAfterSetReturnsValue ==
    /\ [][C38_SetStep]_vars
    /\ [][C38_GetStep]_vars

\* a get that followed a set has returned a value that is in the map
C38_Witness ==
    \E t \in Clients :
        /\ client[t].returned = "get"
        /\ client[t].ret \in Values
        /\ client[t].ret = Lookup(cache_data, client[t].key)
        /\ calls = 2

\* C37: in every reachable state each baseline lies between 0 and its counter
\* (the two category counters and the global one), and once a call of
\* add_message has ended the distance from each baseline to its counter is
\* below the counter's interval.
C37_BaselinesTrackCounts ==
    /\ 0 <= last_channel_summary_count /\ last_channel_summary_count <= channel_message_count
    /\ 0 <= last_group_summary_count /\ last_group_summary_count <= group_message_count
    /\ 0 <= last_analysis_count /\ last_analysis_count <= message_count
    /\ JustIngested =>
         /\ channel_message_count - last_channel_summary_count < summary_interval_channel
         /\ group_message_count - last_group_summary_count < summary_interval_group
         /\ message_count - last_analysis_count < analysis_interval

\* a step in which the exception of one delivered message is caught leaves
\* the thread that received it at the head of its loop; a thread leaves its
\* loop only from the loop condition with the stop event set, or from poll
\* and recv on a ZMQError; a thread that is processing a message does not
\* end
C34_ListenerStep ==
    \A i \in DOMAIN listener.threads :
        /\ (listener'.errors > listener.errors /\ listener'.threads[i] # listener.threads[i])
              => listener'.threads[i] = "loop"
        /\ (listener.threads[i] \in {"loop", "polling", "ingesting"}
               /\ listener'.threads[i] = "exited")
              => \/ listener.threads[i] = "loop" /\ listener.stop_event
                 \/ listener.threads[i] = "polling" /\ listener'.errors = listener.errors
                      /\ listener'.exc = "ZMQError"

\* C34: an exception raised while one delivered message is processed does not
\* end the listener loop, which goes on to the messages delivered after it;
\* only a transport error of the bus or a stop request ends the loop.
C34_ProcessingErrorsContained == [][C34_ListenerStep]_vars

\* a message is being ingested after the processing of an earlier one raised
C34_Witness ==
    /\ listener.errors >= 1 /\ listener.fed = 2
    /\ \E i \in DOMAIN listener.threads : listener.threads[i] = "ingesting"

\* a listener thread of the market-data processor is in its loop and no stop
\* has been requested
MarketListening ==
    /\ ~market.stop_event
    /\ \E i \in DOMAIN market.threads :
          market.threads[i] \in {"loop", "polling", "processing"}

\* C36: TTL expiry is in force whenever the market-data listener is running,
\* also after stop_listening followed by start_listening: while the listener
\* runs, the monitor thread that sweeps the cache has not ended.
C36_ExpiryInForceWhileListening ==
    MarketListening => monitor.pc # "exited"

\* C39: every topic the fetcher publishes for the configured symbol, in
\* whatever letter case the symbol is configured, is matched by one of the
\* filters the market-data listener has subscribed with.
C39_PublishedTopicsSubscribed ==
    \A k \in DOMAIN handled.published :
        ( /\ market.filters # << >>
          /\ handled.msg.s.present
          /\ Lower(handled.msg.s.value) = Lower(market.symbol) )
        => Matches(market.filters, handled.published[k])

\* a listener thread of either processor has been started and has not ended
C40_ThreadAlive ==
    \/ \E i \in DOMAIN listener.threads : listener.threads[i] # "exited"
    \/ \E i \in DOMAIN market.threads : market.threads[i] # "exited"

\* C40: on every shutdown path the listeners are asked to stop only after
\* both fetchers' stop() has returned, no listener thread is alive once
\* close() has been called, and main does not end, normally or by an
\* exception of a stop step, without close() having been called.
C40_OrderlyShutdown ==
    /\ (listener.stop_event \/ market.stop_event)
          => (Len(app.stops) >= 2 /\ app.stops[1] = "telegram" /\ app.stops[2] = "binance")
    /\ lifecycle.closes > 0 => ~C40_ThreadAlive
    /\ app.pc \in {"done", "failed"} => lifecycle.closes > 0

====
